---- MODULE Spec2Model ----
(***************************************************************************)
(* A model of the PulseAudio native-protocol client of client.go: the      *)
(* lifecycle goroutine started by Connect (connect, init, handleFrames,    *)
(* the deferred teardown, the retry wait), the receiver goroutine started  *)
(* by receive, the callers of request, and Close.                          *)
(*                                                                         *)
(* Channels are modelled as Go defines them: c.requests is a buffered      *)
(* queue; a request's response slot and the receiver's recv channel are    *)
(* unbuffered, so a send completes only together with a receive; a send on *)
(* a closed channel panics.                                                *)
(***************************************************************************)
EXTENDS Integers, Sequences, FiniteSets, TLC

\* ------------------------------------------------------------------ bounds

\* Number of user goroutines calling request (each issues one request).
NCallers == 2
\* The tag reserved for subscription events, 0xffffffff in the source, scaled
\* to a tag space 0..TagReserved that fits the checker's integers.
TagReserved == 7
\* Capacity of c.requests, 16 in the source (make(chan request, 16)), scaled
\* so that a few requests fill it.
requestsCap == 2

\* ------------------------------------------------------- program constants

\* const cookieLength = 256
cookieLength == 256
\* Lengths the cookie file may have.
CookieLengths == {0, cookieLength - 1, cookieLength, cookieLength + 1}
\* updates: make(chan struct{}, 1)
updatesCap == 1
\* const frameSizeMaxAllow = 1024 * 1024 * 16
frameSizeMaxAllow == 16777216
\* const version = 32
version == 32
\* const protocolVersionMask = 0x0000FFFF
protocolVersionMask == 65535

\* The lifecycle goroutine, as the caller of its own init requests.
InitCaller == NCallers - NCallers
Users == 1..NCallers
Callers == {InitCaller} \cup Users

\* ------------------------------------------------------------------- state

VARIABLES
    pcL,        \* position of the lifecycle goroutine
    initCmd,    \* the init request in progress: "auth" or "setName"
    cookieLen,  \* length of the cookie file
    cancelled,  \* the lifecycle context is done
    closeStep,  \* statements of Close() executed so far (0..3)
    conn,       \* c.conn: "none", "open", "closed"
    connErr,    \* the error connect last returned to Connect's loop
    queue,      \* contents of c.requests (the caller owning each request)
    pending,    \* connect's pending map: tag -> caller
    tag,        \* handleFrames' tag cursor
    send,       \* the response-slot send the lifecycle goroutine is blocked on
    toClean,    \* tags the deferred cleanup loop has still to visit
    cause,      \* why handleFrames returned
    rpc,        \* position of the receiver goroutine of this connection
    rframe,     \* the frame the receiver holds
    leaked,     \* a receiver of an earlier connection never returned
    cst,        \* caller state: "idle", "waiting", "done"
    res,        \* what request returned to each caller
    deadline,   \* the context of the caller's request in progress can become done
    unanswered, \* requests the server has received and not answered
    slotWrites, \* number of values received from each caller's response slot
    srvBad,     \* the server sent a frame that answers no request
    panicked,   \* a goroutine panicked: the process is gone
    updates,    \* number of events buffered in c.updates (capacity 1)
    opts,       \* the Opts given to NewClient
    copts,      \* c.opts
    pulseServer, \* the PULSE_SERVER environment variable
    hl,         \* the goroutine calling a high-level operation
    sinkSrv,    \* what the server holds: default sink, sinks' volume and mute
    sub,        \* the caller of Updates and the server's subscription
    cli,        \* a call of parseSinks: its reader and what it returned
    timer       \* the retry timer of Connect's loop

vars == <<pcL, initCmd, cookieLen, cancelled, closeStep, conn, connErr, queue,
          pending,
          tag, send, toClean, cause, rpc, rframe, leaked, cst, res, deadline,
          unanswered, slotWrites, srvBad, panicked, updates, opts,
          copts, pulseServer, hl, sinkSrv, sub, cli, timer>>

lifeVars == <<pcL, initCmd, conn, connErr>>
muxVars == <<pending, tag, send, toClean, cause>>
recvVars == <<rpc, rframe, leaked>>
callVars == <<cst, res, deadline, slotWrites>>
envVars == <<cookieLen, unanswered, srvBad>>
cfgVars == <<opts, copts, pulseServer>>
opVars == <<hl, sinkSrv>>
sideVars == <<sub, cli, timer>>

\* ------------------------------------------------------------------ values

Res(k, b) == [kind |-> k, body |-> b]
ErrRes(k) == [kind |-> k, body |-> -1]
NoRes == ErrRes("none")
ErrClientClosed == ErrRes("ErrClientClosed")
ErrCouldNotSendRequest == ErrRes("ErrCouldNotSendRequest")
CtxErr == ErrRes("ctxErr")
WriteErr == ErrRes("writeErr")

Frame(k, t, b) == [kind |-> k, tag |-> t, body |-> b]
NoFrame == Frame("none", -1, -1)

NoSend == [to |-> -1, val |-> NoRes, then |-> "none"]

EmptyPending == [t \in {} |-> InitCaller]

\* Nobody has called Updates and the server holds no subscription. A caller
\* of Updates is described by its position, the number of its calls, whether
\* the last one returned the channel, how many events the channel held when
\* the last call was made, and whether handleFrames has been handed a
\* SUBSCRIBE_EVENT frame since.
NoSub ==
    [pc |-> "idle", calls |-> 0, ok |-> FALSE, subscribed |-> FALSE,
     held |-> 0, since |-> FALSE]

\* parseSinks has not been called.
NoCli == [r |-> << >>, called |-> FALSE, sinks |-> << >>, err |-> "nil"]

\* var timer *time.Timer in Connect's goroutine: not running, nothing in
\* timer.C.
NoTimer == [running |-> FALSE, C |-> 0]

\* time.NewTimer(interval) on the first pass, timer.Reset(interval) on the
\* later ones: the timer runs for a whole interval from now; Reset leaves
\* in timer.C what is in it.
ArmTimer(t) == [running |-> TRUE, C |-> t.C]

\* case <-timer.C: the tick is taken out of the channel.
DrainTimerNot(t) == t
DrainTimer(t) == [t EXCEPT !.C = 0]

requestsClosed == closeStep >= 1
updatesClosed == closeStep >= 2

\* ---------------------------------------------------------------- helpers

\* The scan without the step over the reserved value.
RECURSIVE nextAvailableTagNoWrap(_, _)
nextAvailableTagNoWrap(t, pend) ==
    IF t \notin DOMAIN pend THEN t ELSE nextAvailableTagNoWrap(t + 1, pend)

\* func nextAvailableTag(tag uint32, pending map[uint32]request) uint32
RECURSIVE nextAvailableTag(_, _)
nextAvailableTag(t, pend) ==
    IF t \notin DOMAIN pend
    THEN t
    ELSE LET n == (t + 1) % (TagReserved + 1)
         IN  nextAvailableTag(IF n = TagReserved THEN 0 ELSE n, pend)

\* pending[t] = p
PendingPut(pend, t, p) ==
    [x \in DOMAIN pend \cup {t} |-> IF x = t THEN p ELSE pend[x]]

PendingDeleteNothing(pend, t) == pend
\* delete(pending, t)
PendingDelete(pend, t) == [x \in DOMAIN pend \ {t} |-> pend[x]]

\* request(ctx, cmd, ...): the command caller c writes into its request
\* (uint32Tag, uint32(cmd) at offsets 20-24); the requests of different
\* callers carry different commands.
RequestCommand(c) == 20 + c

\* The four bytes of a u32, big-endian.
BigEndian(v) ==
    <<v \div 16777216, (v \div 65536) % 256, (v \div 256) % 256, v % 256>>

\* request lines 359-368: the bytes bwrite makes of the dummy length, the
\* channel 0xffffffff, offset high and low, the flags, uint32Tag ('L') and
\* the command, uint32Tag and the dummy tag 0, and the arguments of the
\* command, whose length differs from request to request.
RequestData(c) ==
    <<0, 0, 0, 0, 255, 255, 255, 255, 0, 0, 0, 0, 0, 0, 0, 0, 0, 0, 0, 0>>
        \o <<76>> \o BigEndian(RequestCommand(c))
        \o <<76>> \o BigEndian(0)
        \o [i \in 1..c |-> 66]

\* binary.BigEndian.PutUint32(b[off:], v)
PutUint32(b, off, v) ==
    [i \in 1..Len(b) |->
        IF i > off /\ i <= off + 4 THEN BigEndian(v)[i - off] ELSE b[i]]

\* binary.BigEndian.Uint32(b[off:])
Uint32(b, off) ==
    b[off + 1] * 16777216 + b[off + 2] * 65536 + b[off + 3] * 256 + b[off + 4]

\* The tag written over the command word.
PatchFrameAtCommand(data, t) ==
    PutUint32(PutUint32(data, 0, Len(data) - 20), 21, t)
\* handleFrames lines 284-285: the length and the tag patched into p.data.
PatchFrame(data, t) ==
    PutUint32(PutUint32(data, 0, Len(data) - 20), 26, t)

\* What the server makes of a frame of size bytes it has received: the body
\* length of the prologue, the type tag at offset 20 and the command at
\* offset 21, the tag at offset 26, and the request it will answer (the one
\* that carries this command).
SrvRequest(frame) ==
    [tag |-> Uint32(frame, 26), who |-> Uint32(frame, 21) - 20,
     cmdTag |-> frame[21], cmd |-> Uint32(frame, 21),
     length |-> Uint32(frame, 0), size |-> Len(frame)]

\* The caller of request c is in the select of request (lines 389-394): only
\* then can a send on its response slot complete.
Receptive(c) ==
    IF c = InitCaller THEN pcL = "initWait" /\ cst[c] = "waiting"
    ELSE cst[c] = "waiting"

\* ------------------------------------------- high-level operations: values

\* No goroutine is calling a high-level operation. A caller of the
\* operations is described by the operation it is in and its argument, its
\* position, the locals s.DefaultSink and muted, the server state when the
\* operation was called, the requests the operation has issued, whether one
\* of them failed, and the calls that have returned.
NoOp ==
    [op |-> "none", arg |-> 0, pc |-> <<"none", "idle">>, name |-> "",
     muted |-> FALSE, before |-> << >>, log |-> << >>, failed |-> FALSE, calls |-> << >>]
\* The server's sinks are out of the picture.
NoSinks == [default |-> "", vol |-> << >>, mute |-> << >>]

\* const pulseVolumeMax = 0xffff
pulseVolumeMax == 65535

\* A float32 volume is given in quarters: the argument k stands for
\* k / VolumeDen (0, 0.25, 0.5, ...), all exact in float32, as are their
\* products with 0xffff.
VolumeDen == 4
\* The largest volume passed, in quarters (1.5).
MaxVolume == 6
Volumes == 0 .. MaxVolume
\* How many high-level operations the caller calls one after another.
MaxCalls == 2

\* uint32(0xffffffff): "no index, use the name that follows".
PaInvalidIndex == "0xffffffff"

\* The sinks of the server, in the order of its GET_SINK_INFO_LIST reply.
SinkOrder == <<"A", "B">>
SinkNames == {SinkOrder[i] : i \in DOMAIN SinkOrder}
\* Channel values a sink may hold before the first call.
InitialVolumes == {0, pulseVolumeMax}

\* uint32(volume * 0xffff): the float32 product, converted by truncation
\* toward zero.
Uint32OfRounded(k) ==
    (2 * k * pulseVolumeMax + VolumeDen) \div (2 * VolumeDen)
Uint32Of(k) == (k * pulseVolumeMax) \div VolumeDen

\* float32(sink.CVolume[0]) / pulseVolumeMax, as a fraction.
VolumeOf(cv) == [num |-> cv, den |-> pulseVolumeMax]

\* SetSinkMute: muteCmd := '0'; if mute { muteCmd = '1' }; uint8(muteCmd),
\* which on the wire is the tag of the boolean.
MuteCmd(mute) == IF mute THEN "1" ELSE "0"

\* ToggleMute: the state it asks for, !muted.
ToggleTargetSame(muted) == muted
ToggleTarget(muted) == ~muted

\* The server's reply to GET_SERVER_INFO, as ServerInfo decodes it.
ServerInfoReply(srv) == [DefaultSink |-> srv.default]

\* The server's reply to GET_SINK_INFO_LIST, as Sinks decodes it.
SinksReply(srv) ==
    [i \in DOMAIN SinkOrder |->
        [Name |-> SinkOrder[i],
         CVolume |-> <<srv.vol[SinkOrder[i]]>>,
         Muted |-> srv.mute[SinkOrder[i]]]]

\* The server executes SET_SINK_VOLUME: with no index it stores the volume
\* it is sent in the sink of that name.
SrvSetSinkVolume(srv, req) ==
    IF req.index = PaInvalidIndex /\ req.name \in SinkNames
    THEN [srv EXCEPT !.vol[req.name] = req.cvolume[1]]
    ELSE srv

\* The server executes SET_SINK_MUTE.
SrvSetSinkMute(srv, req) ==
    IF req.index = PaInvalidIndex /\ req.name \in SinkNames
    THEN [srv EXCEPT !.mute[req.name] = (req.mute = "1")]
    ELSE srv

\* for _, sink := range sinks { if sink.Name != s.DefaultSink { continue } ...
\* the sink the loop stops at: the first one of that name, if any.
FindSinkFirst(sinks, name) ==
    IF sinks = << >> THEN {} ELSE {sinks[1]}
FindSink(sinks, name) ==
    LET at == {i \in DOMAIN sinks : sinks[i].Name = name}
    IN  IF at = {} THEN {}
        ELSE {sinks[CHOOSE i \in at : \A j \in at : i <= j]}

\* ------------------------------------------------------------ NewClient

\* An address string: whether it starts with "unix://", and what follows
\* (the whole string when it does not).
Addr(u, r) == [unix |-> u, rest |-> r]
NoAddr == Addr(FALSE, "")
\* var defaultAddr = fmt.Sprintf("/run/user/%d/pulse/native", os.Getuid())
defaultAddr == Addr(FALSE, "/run/user/uid/pulse/native")
\* strings.HasPrefix(a, "unix://") and strings.TrimPrefix(a, "unix://")
HasUnixPrefix(a) == a.unix
TrimUnixPrefix(a) == Addr(FALSE, a.rest)

\* mergo.Merge(opts, defaults): NewClient passes opts by value, not by
\* pointer, so Merge has nothing it can write to; it returns an error, which
\* NewClient discards, and opts stay as given.
Merge(o, defaults) == o

\* NewClient, lines 105-123: the address and the protocol of c.opts.
NewClientOpts(o, env) ==
    LET defaults == [Addr |-> env, Protocol |-> "tcp"]
        m == Merge(o, defaults)
        a == IF m.Addr = NoAddr THEN defaultAddr ELSE m.Addr
    IN  IF HasUnixPrefix(a)
        THEN [Addr |-> TrimUnixPrefix(a), Protocol |-> "unix"]
        ELSE [Addr |-> a, Protocol |-> m.Protocol]

\* The configuration the model runs with where NewClient is not the subject.
UnixOpts == [Addr |-> Addr(FALSE, "/run/pulse/native"), Protocol |-> "unix"]

\* Opts and environments NewClient is given.
AddrInputs ==
    {NoAddr, Addr(TRUE, "/a"), Addr(TRUE, ""), Addr(FALSE, "host:4713")}
ProtocolInputs == {"", "tcp", "unix"}
EnvInputs == {NoAddr, Addr(TRUE, "/e"), Addr(FALSE, "ehost:4713")}

\* ---------------------------------------------------------------- initial

\* NewClient, and the zero values of what connect and receive create later.
ClientInit ==
    /\ initCmd = "auth"
    /\ cancelled = FALSE
    /\ closeStep = 0
    /\ queue = << >>
    /\ connErr = "none"
    /\ pending = EmptyPending
    /\ tag = 0
    /\ send = NoSend
    /\ toClean = {}
    /\ cause = "none"
    /\ rpc = "none"
    /\ rframe = NoFrame
    /\ leaked = FALSE
    /\ cst = [c \in Callers |-> "idle"]
    /\ res = [c \in Callers |-> NoRes]
    /\ deadline = [c \in Callers |-> c = InitCaller]
    /\ unanswered = {}
    /\ slotWrites = [c \in Callers |-> 0]
    /\ srvBad = FALSE
    /\ panicked = FALSE
    /\ updates = 0
    /\ sub = NoSub
    /\ timer = NoTimer

\* A client on which no high-level operation has been called.
InitCommon ==
    /\ ClientInit
    /\ hl = NoOp
    /\ cli = NoCli
    /\ sinkSrv = NoSinks

\* The client after NewClient, before Connect.
Init ==
    /\ InitCommon
    /\ opts = UnixOpts
    /\ copts = UnixOpts
    /\ pulseServer = NoAddr
    /\ pcL = "idle"
    /\ conn = "none"
    /\ cookieLen \in CookieLengths

\* Values the u32 of an AUTH reply may carry: high and low 16 bits around
\* the version and the mask.
AuthReplies ==
    {hi * (protocolVersionMask + 1) + lo :
        hi \in {0, 1, version, protocolVersionMask \div 2},
        lo \in {0, version - 1, version, version + 1, protocolVersionMask}}

\* auth at line 424: the connection is dialled and auth's request has
\* returned the server's reply.
AuthInit ==
    /\ initCmd = "auth"
    /\ cancelled = FALSE
    /\ closeStep = 0
    /\ queue = << >>
    /\ connErr = "none"
    /\ pending = EmptyPending
    /\ tag = 0
    /\ send = NoSend
    /\ toClean = {}
    /\ cause = "none"
    /\ rpc = "none"
    /\ rframe = NoFrame
    /\ leaked = FALSE
    /\ cst = [c \in Callers |-> IF c = InitCaller THEN "done" ELSE "idle"]
    /\ \E r \in AuthReplies :
         res = [c \in Callers |->
                  IF c = InitCaller THEN Res("reply", r) ELSE NoRes]
    /\ deadline = [c \in Callers |-> c = InitCaller]
    /\ unanswered = {}
    /\ slotWrites = [c \in Callers |-> IF c = InitCaller THEN 1 ELSE 0]
    /\ srvBad = FALSE
    /\ panicked = FALSE
    /\ updates = 0
    /\ sub = NoSub
    /\ timer = NoTimer
    /\ cli = NoCli
    /\ hl = NoOp
    /\ sinkSrv = NoSinks
    /\ opts = UnixOpts
    /\ copts = UnixOpts
    /\ pulseServer = NoAddr
    /\ pcL = "initWait"
    /\ conn = "open"
    /\ cookieLen = cookieLength

\* connect at line 197: the connection is dialled and init has returned nil.
ServeInit ==
    /\ InitCommon
    /\ opts = UnixOpts
    /\ copts = UnixOpts
    /\ pulseServer = NoAddr
    /\ pcL = "startReceive"
    /\ conn = "open"
    /\ cookieLen = cookieLength

\* A connected client whose requests are answered (or fail), and a server
\* whose default sink is one of its sinks; no operation has been called.
OpsInit ==
    /\ ClientInit
    /\ opts = UnixOpts
    /\ copts = UnixOpts
    /\ pulseServer = NoAddr
    /\ pcL = "startReceive"
    /\ conn = "open"
    /\ cookieLen = cookieLength
    /\ hl = NoOp
    /\ cli = NoCli
    /\ \E d \in SinkNames, v \in [SinkNames -> InitialVolumes],
          m \in [SinkNames -> BOOLEAN] :
         sinkSrv = [default |-> d, vol |-> v, mute |-> m]

\* The multiplexer loop of a long-lived connection, between two iterations:
\* the cursor stands at the tag it allocated last, whose request (of caller
\* p) is either still pending or was answered, as were all earlier ones.
MidServe(t, p, held) ==
    /\ initCmd = "auth"
    /\ cancelled = FALSE
    /\ closeStep = 0
    /\ queue = << >>
    /\ connErr = "none"
    /\ pending = (IF held THEN PendingPut(EmptyPending, t, p) ELSE EmptyPending)
    /\ tag = t
    /\ send = NoSend
    /\ toClean = {}
    /\ cause = "none"
    /\ rpc = "check"
    /\ rframe = NoFrame
    /\ leaked = FALSE
    /\ cst = [c \in Callers |-> IF held /\ c = p THEN "waiting" ELSE "idle"]
    /\ res = [c \in Callers |-> NoRes]
    /\ deadline = [c \in Callers |-> c = InitCaller]
    /\ unanswered =
         (IF held THEN {SrvRequest(PatchFrame(RequestData(p), t))} ELSE {})
    /\ slotWrites = [c \in Callers |-> 0]
    /\ srvBad = FALSE
    /\ panicked = FALSE
    /\ pcL = "serve"
    /\ conn = "open"
    /\ cookieLen = cookieLength
    /\ updates = 0
    /\ sub = NoSub
    /\ timer = NoTimer
    /\ cli = NoCli
    /\ hl = NoOp
    /\ sinkSrv = NoSinks
    /\ opts = UnixOpts
    /\ copts = UnixOpts
    /\ pulseServer = NoAddr

\* Before NewClient: the Opts and the environment it will be given.
ConfigInit ==
    /\ InitCommon
    /\ opts \in [Addr : AddrInputs, Protocol : ProtocolInputs]
    /\ pulseServer \in EnvInputs
    /\ copts = opts
    /\ pcL = "new"
    /\ conn = "none"
    /\ cookieLen = cookieLength

\* connect at line 197, or handleFrames with its cursor anywhere below the
\* reserved value.
TagInit ==
    \/ ServeInit
    \/ \E t \in 0..(TagReserved - 1), p \in Users, held \in BOOLEAN :
          MidServe(t, p, held)

\* ------------------------------------------------ the lifecycle goroutine

\* NewClient: resolve the options and make the channels.
NewClient ==
    /\ pcL = "new"
    /\ copts' = NewClientOpts(opts, pulseServer)
    /\ pcL' = "idle"
    /\ UNCHANGED <<initCmd, conn, connErr, cancelled, closeStep, queue>>
    /\ UNCHANGED <<muxVars, recvVars, callVars, envVars, panicked>>
    /\ UNCHANGED <<updates, opts, pulseServer, opVars, sideVars>>

\* Connect: derive the lifecycle context and start the goroutine.
Connect ==
    /\ ~panicked
    /\ pcL = "idle"
    /\ closeStep = 0
    /\ pcL' = "dial"
    /\ UNCHANGED <<initCmd, conn, connErr, cancelled, closeStep, queue>>
    /\ UNCHANGED <<muxVars, recvVars, callVars, envVars, panicked>>
    /\ UNCHANGED <<cfgVars, opVars, sideVars>>
    /\ UNCHANGED updates

\* connect: DialContext succeeded (it knows the network c.opts.Protocol).
DialOk ==
    /\ ~panicked
    /\ pcL = "dial"
    /\ ~cancelled
    /\ copts.Protocol \in {"tcp", "unix"}
    /\ conn' = "open"
    /\ initCmd' = "auth"
    /\ pcL' = "initSend"
    /\ UNCHANGED <<connErr, cancelled, closeStep, queue>>
    /\ UNCHANGED <<muxVars, recvVars, callVars, envVars, panicked>>
    /\ UNCHANGED <<cfgVars, opVars, sideVars>>
    /\ UNCHANGED updates

\* connect: DialContext failed (refused, timed out, or the context is done).
DialFail ==
    /\ ~panicked
    /\ pcL = "dial"
    /\ pcL' = "retry"
    /\ connErr' = "dial"
    /\ timer' = ArmTimer(timer)
    /\ UNCHANGED <<initCmd, conn, cancelled, closeStep, queue>>
    /\ UNCHANGED <<muxVars, recvVars, callVars, envVars, panicked>>
    /\ UNCHANGED <<cfgVars, opVars, sub, cli>>
    /\ UNCHANGED updates

\* init returned an error: connect returns it, its deferred conn.Close() runs.
InitFailed(why) ==
    /\ conn' = "closed"
    /\ pcL' = "retry"
    /\ initCmd' = "auth"
    /\ connErr' = why

\* auth: len(cookie) != cookieLength fails the check.
CookieAtMost(n) == n <= cookieLength
CookieOk(n) == n = cookieLength

\* auth / setName up to and including sendRequest of their request.
InitSend ==
    /\ ~panicked
    /\ pcL = "initSend"
    /\ UNCHANGED <<cancelled, closeStep, muxVars, recvVars, envVars>>
    /\ UNCHANGED <<deadline, slotWrites>>
    /\ IF initCmd = "auth" /\ ~CookieOk(cookieLen)
       THEN \* auth: the cookie has the wrong length
            /\ InitFailed("cookie")
            /\ UNCHANGED <<queue, cst, res, panicked>>
       ELSE \E choice \in {"send", "done", "default"} :
            /\ choice = "send" => (requestsClosed \/ Len(queue) < requestsCap)
            /\ choice = "done" => cancelled
            /\ choice = "default" =>
                 ~(requestsClosed \/ Len(queue) < requestsCap \/ cancelled)
            /\ IF choice = "send" /\ requestsClosed
               THEN \* send on a closed channel
                    /\ panicked' = TRUE
                    /\ UNCHANGED <<lifeVars, queue, cst, res>>
               ELSE IF choice = "send"
               THEN /\ queue' = Append(queue, InitCaller)
                    /\ cst' = [cst EXCEPT ![InitCaller] = "waiting"]
                    /\ res' = [res EXCEPT ![InitCaller] = NoRes]
                    /\ pcL' = "initWait"
                    /\ UNCHANGED <<initCmd, conn, connErr, panicked>>
               ELSE \* ctx.Err() or ErrCouldNotSendRequest
                    /\ InitFailed(IF choice = "done" THEN "initCanceled"
                                  ELSE "initCouldNotSend")
                    /\ UNCHANGED <<queue, cst, res, panicked>>
    /\ timer' = (IF pcL' = "retry" THEN ArmTimer(timer) ELSE timer)
    /\ UNCHANGED <<cfgVars, opVars, sub, cli>>
    /\ UNCHANGED updates

\* serverVersion &= protocolVersionMask, on a u32
ProtocolVersion(r) == r % (protocolVersionMask + 1)

\* auth: the request returned a reply and the version it carries, masked, is
\* not below version.
VersionOkNoMask(r) == r.kind = "reply" /\ r.body >= version
VersionOk(r) == r.kind = "reply" /\ ProtocolVersion(r.body) >= version

\* request's select (lines 389-394) for the init request, and what auth /
\* setName / init / connect do with the outcome.
InitWait ==
    /\ ~panicked
    /\ pcL = "initWait"
    /\ UNCHANGED <<cancelled, closeStep, queue, muxVars, recvVars, envVars>>
    /\ UNCHANGED <<deadline, slotWrites, panicked>>
    /\ IF cst[InitCaller] = "done"
       THEN \* a response was received from the slot
            /\ cst' = [cst EXCEPT ![InitCaller] = "idle"]
            /\ res' = [res EXCEPT ![InitCaller] = NoRes]
            /\ IF res[InitCaller].kind # "reply"
               THEN InitFailed("initReply")
               ELSE IF initCmd = "auth" /\ ~VersionOk(res[InitCaller])
               THEN InitFailed("versionTooLow")
               ELSE IF initCmd = "auth"
               THEN /\ initCmd' = "setName"
                    /\ pcL' = "initSend"
                    /\ UNCHANGED <<conn, connErr>>
               ELSE /\ initCmd' = "auth"
                    /\ pcL' = "startReceive"
                    /\ UNCHANGED <<conn, connErr>>
       ELSE \* <-ctx.Done(): the 10 s init deadline, or the lifecycle cancelled
            /\ cst' = [cst EXCEPT ![InitCaller] = "idle"]
            /\ UNCHANGED res
            /\ InitFailed(IF cancelled THEN "initCanceled" ELSE "initDeadline")
    /\ timer' = (IF pcL' = "retry" THEN ArmTimer(timer) ELSE timer)
    /\ UNCHANGED <<cfgVars, opVars, sub, cli>>
    /\ UNCHANGED updates

\* The interval of the timer armed at lines 150-154 is over: the runtime
\* puts the tick into timer.C. The goroutine went from arming the timer into
\* the select without blocking, so a context that was done before the tick
\* has already decided the select, and the tick no longer matters.
TimerFires ==
    /\ ~panicked
    /\ pcL = "retry"
    /\ timer.running
    /\ ~cancelled
    /\ timer' = [running |-> FALSE, C |-> 1]
    /\ UNCHANGED <<lifeVars, cancelled, closeStep, queue>>
    /\ UNCHANGED <<muxVars, recvVars, callVars, envVars, panicked>>
    /\ UNCHANGED <<cfgVars, opVars, sub, cli>>
    /\ UNCHANGED updates

\* Connect's select after connect returned: case <-timer.C, continue.
RetryTimer ==
    /\ ~panicked
    /\ pcL = "retry"
    /\ timer.C = 1
    /\ pcL' = "dial"
    /\ connErr' = "none"
    /\ timer' = DrainTimer(timer)
    /\ UNCHANGED <<initCmd, conn, cancelled, closeStep, queue>>
    /\ UNCHANGED <<muxVars, recvVars, callVars, envVars, panicked>>
    /\ UNCHANGED <<cfgVars, opVars, sub, cli>>
    /\ UNCHANGED updates

\* Connect's select after connect returned: the context is done, the
\* goroutine returns and its timer is gone.
RetryCtxDone ==
    /\ ~panicked
    /\ pcL = "retry"
    /\ cancelled
    /\ pcL' = "exited"
    /\ timer' = NoTimer
    /\ UNCHANGED <<initCmd, conn, connErr, cancelled, closeStep, queue>>
    /\ UNCHANGED <<muxVars, recvVars, callVars, envVars, panicked>>
    /\ UNCHANGED <<cfgVars, opVars, sub, cli>>
    /\ UNCHANGED updates

\* ------------------------------------------- connect from line 197 onwards

\* connect lines 197-199 and handleFrames line 267: start the receiver,
\* make the pending map, enter the multiplexer loop with the cursor at 0.
StartReceive ==
    /\ ~panicked
    /\ pcL = "startReceive"
    /\ rpc' = "check"
    /\ rframe' = NoFrame
    /\ leaked' = (leaked \/ rpc \notin {"none", "closed"})
    /\ pending' = EmptyPending
    /\ tag' = 0
    /\ cause' = "none"
    /\ pcL' = "serve"
    /\ UNCHANGED <<initCmd, conn, connErr, cancelled, closeStep, queue, send>>
    /\ UNCHANGED toClean
    /\ UNCHANGED <<callVars, envVars, panicked>>
    /\ UNCHANGED <<cfgVars, opVars, sideVars>>
    /\ UNCHANGED updates

\* handleFrames returns: connect's deferred cleanup loop starts over the
\* pending map as it is.
Return(why, pend) ==
    /\ cause' = why
    /\ pcL' = "cleanup"
    /\ toClean' = DOMAIN pend

\* handleFrames, case p, ok := <-out with ok: allocate the tag, patch and
\* write the frame, which the server receives, and record the request (or
\* answer it and return when the write failed). Requests built by request
\* are never shorter than 26 bytes. With every tag taken nextAvailableTag
\* does not return, and the step never completes.
HandleOut ==
    /\ ~panicked
    /\ pcL = "serve"
    /\ queue # << >>
    /\ \E x \in 0..(TagReserved - 1) : x \notin DOMAIN pending
    /\ LET p == Head(queue)
           t == nextAvailableTag(tag, pending)
       IN  /\ queue' = Tail(queue)
           /\ tag' = t
           /\ \E written \in BOOLEAN :
                IF written
                THEN /\ pending' = PendingPut(pending, t, p)
                     /\ unanswered' = unanswered \cup
                            {SrvRequest(PatchFrame(RequestData(p), t))}
                     /\ UNCHANGED <<pcL, send, toClean, cause>>
                ELSE /\ send' = [to |-> p, val |-> WriteErr, then |-> "return"]
                     /\ cause' = "writeErr"
                     /\ pcL' = "send"
                     /\ UNCHANGED <<pending, toClean, unanswered>>
    /\ UNCHANGED <<initCmd, conn, connErr, cancelled, closeStep, recvVars>>
    /\ UNCHANGED callVars
    /\ UNCHANGED <<cookieLen, srvBad, panicked>>
    /\ UNCHANGED <<cfgVars, opVars, sideVars>>
    /\ UNCHANGED updates

\* handleFrames, case p, ok := <-out with !ok: c.requests is closed and empty.
HandleOutClosed ==
    /\ ~panicked
    /\ pcL = "serve"
    /\ queue = << >>
    /\ requestsClosed
    /\ Return("outClosed", pending)
    /\ UNCHANGED <<initCmd, conn, connErr, cancelled, closeStep, queue>>
    /\ UNCHANGED <<pending, tag>>
    /\ UNCHANGED <<send, recvVars, callVars, envVars, panicked>>
    /\ UNCHANGED <<cfgVars, opVars, sideVars>>
    /\ UNCHANGED updates

\* type Error struct { Cmd string; Code uint32 }, as request returns it.
ErrorRes(cmd, code) == [kind |-> "Error", body |-> code, cmd |-> cmd]
\* "expected reply (2) or error (0) but got: ..."
UnexpectedCommand == ErrRes("unexpectedCommand")

\* command(binary.BigEndian.Uint32(p.data[21:])): the command word read back
\* from the stored request p (not the command word of the inbound frame,
\* which for an ERROR frame is commandError = 0).
CommandOfFrame(p) == 0
CommandOf(p) == RequestCommand(p)

\* handleFrames lines 318 and 323-338: what is sent to the response slot of
\* the request recorded under the frame's tag; the loop goes on afterwards.
ReplyToOldest(pend, f) ==
    [to |-> pend[CHOOSE t \in DOMAIN pend : \A x \in DOMAIN pend : t <= x],
     val |-> Res("reply", f.body), then |-> "serve"]
ReplyToAndReturn(pend, f) ==
    [to |-> pend[f.tag],
     val |-> IF f.kind = "error"
             THEN ErrorRes(CommandOf(pend[f.tag]), f.body)
             ELSE IF f.kind = "reply" THEN Res("reply", f.body)
             ELSE UnexpectedCommand,
     then |-> IF f.kind \in {"error", "reply"} THEN "serve" ELSE "return"]
ReplyTo(pend, f) ==
    [to |-> pend[f.tag],
     val |-> IF f.kind = "error"
             THEN ErrorRes(CommandOf(pend[f.tag]), f.body)
             ELSE IF f.kind = "reply" THEN Res("reply", f.body)
             ELSE UnexpectedCommand,
     then |-> "serve"]

\* select { case c.updates <- struct{}{}: default: } on the open channel
\* holding u events: the event is queued if there is room and dropped if not.
UpdatesSendQueued(u) == u + 1
UpdatesSendNever(u) == u
UpdatesSend(u) == IF u < updatesCap THEN u + 1 ELSE u

\* handleFrames was handed a SUBSCRIBE_EVENT frame: a caller of Updates, if
\* there is one, has had an event frame arrive since its call.
SubNote(s) == IF s.calls > 0 THEN [s EXCEPT !.since = TRUE] ELSE s

\* Frames the receiver sends with err set (lines 233, 241, 251).
ErrFrames == {"readErr", "oversize"}

\* handleFrames, case incoming, ok := <-in with ok: the receiver's send on
\* recv completes; after an error frame the receiver returns (first draining
\* the body it refused), otherwise it loops.
HandleIn ==
    /\ ~panicked
    /\ pcL = "serve"
    /\ rpc = "send"
    /\ rpc' = (IF rframe.kind = "oversize" THEN "drain"
               ELSE IF rframe.kind = "readErr" THEN "closed" ELSE "check")
    /\ rframe' = NoFrame
    /\ IF rframe.kind \in ErrFrames
       THEN \* incoming.err != nil
            /\ Return(IF rframe.kind = "oversize" THEN "oversize"
                      ELSE "frameErr", pending)
            /\ UNCHANGED <<pending, send, updates, panicked>>
       ELSE IF rframe.kind = "malformed"
       THEN \* bread of the command and the tag failed
            /\ Return("invalidFrame", pending)
            /\ UNCHANGED <<pending, send, updates, panicked>>
       ELSE IF rframe.kind = "event" /\ rframe.tag = TagReserved
       THEN \* select { case c.updates <- struct{}{}: default: }
            /\ IF updatesClosed
               THEN panicked' = TRUE /\ UNCHANGED updates
               ELSE /\ updates' = UpdatesSend(updates)
                    /\ UNCHANGED panicked
            /\ UNCHANGED <<pcL, pending, send, toClean, cause>>
       ELSE IF rframe.tag \notin DOMAIN pending
       THEN \* no pending request for the tag
            /\ Return("unknownTag", pending)
            /\ UNCHANGED <<pending, send, updates, panicked>>
       ELSE /\ pending' = PendingDelete(pending, rframe.tag)
            /\ send' = ReplyTo(pending, rframe)
            /\ pcL' = "send"
            /\ UNCHANGED <<toClean, cause, updates, panicked>>
    /\ UNCHANGED <<initCmd, conn, connErr, cancelled, closeStep, queue>>
    /\ UNCHANGED <<tag, leaked>>
    /\ UNCHANGED <<callVars, envVars>>
    /\ sub' = (IF rframe.kind = "event" /\ rframe.tag = TagReserved
               THEN SubNote(sub) ELSE sub)
    /\ UNCHANGED <<cfgVars, opVars, cli, timer>>

\* handleFrames, case incoming, ok := <-in with !ok: recv is closed.
HandleInClosed ==
    /\ ~panicked
    /\ pcL = "serve"
    /\ rpc = "closed"
    /\ Return("inClosed", pending)
    /\ UNCHANGED <<initCmd, conn, connErr, cancelled, closeStep, queue>>
    /\ UNCHANGED <<pending, tag>>
    /\ UNCHANGED <<send, recvVars, callVars, envVars, panicked>>
    /\ UNCHANGED <<cfgVars, opVars, sideVars>>
    /\ UNCHANGED updates

\* p.response <- frame completes: the caller receives it in request's
\* select and returns. The lifecycle goroutine goes on where the send was.
Deliver ==
    /\ ~panicked
    /\ pcL = "send"
    /\ Receptive(send.to)
    /\ cst' = [cst EXCEPT ![send.to] = "done"]
    /\ res' = [res EXCEPT ![send.to] = send.val]
    /\ slotWrites' = [slotWrites EXCEPT ![send.to] = @ + 1]
    /\ deadline' = [deadline EXCEPT ![send.to] = (send.to = InitCaller)]
    /\ send' = NoSend
    /\ IF send.then = "return"
       THEN /\ pcL' = "cleanup"
            /\ toClean' = DOMAIN pending
       ELSE /\ pcL' = send.then
            /\ UNCHANGED toClean
    /\ UNCHANGED <<initCmd, conn, connErr, cancelled, closeStep, queue>>
    /\ UNCHANGED <<pending, tag>>
    /\ UNCHANGED <<cause, recvVars, envVars, panicked>>
    /\ UNCHANGED <<cfgVars, opVars, sideVars>>
    /\ UNCHANGED updates

\* connect's deferred cleanup: the range over pending reaches an entry and
\* starts p.response <- frame{err: ErrClientClosed}.
CleanupPick ==
    /\ ~panicked
    /\ pcL = "cleanup"
    /\ toClean # {}
    /\ \E t \in toClean :
         /\ send' = [to |-> pending[t], val |-> ErrClientClosed,
                     then |-> "cleanup"]
         /\ toClean' = toClean \ {t}
    /\ pcL' = "send"
    /\ UNCHANGED <<initCmd, conn, connErr, cancelled, closeStep, queue>>
    /\ UNCHANGED <<pending, tag>>
    /\ UNCHANGED <<cause, recvVars, callVars, envVars, panicked>>
    /\ UNCHANGED <<cfgVars, opVars, sideVars>>
    /\ UNCHANGED updates

\* The cleanup loop is over: the deferred conn.Close() runs and connect
\* returns; its locals (pending, the cursor, the error) are gone, and so is
\* what the server held for the connection.
ConnectReturn ==
    /\ ~panicked
    /\ pcL = "cleanup"
    /\ toClean = {}
    /\ conn' = "closed"
    /\ pcL' = "retry"
    /\ connErr' = (IF cause \in {"outClosed", "inClosed"} THEN "none" ELSE cause)
    /\ pending' = EmptyPending
    /\ tag' = 0
    /\ cause' = "none"
    /\ unanswered' = {}
    /\ timer' = ArmTimer(timer)
    /\ UNCHANGED <<initCmd, cancelled, closeStep, queue, send, toClean>>
    /\ UNCHANGED <<recvVars, callVars, cookieLen, srvBad, panicked>>
    /\ UNCHANGED <<cfgVars, opVars, sub, cli>>
    /\ UNCHANGED updates

\* --------------------------------------------------- the receiver goroutine

\* receive, top of the loop: return (closing recv) when the context is done.
RecvCheck ==
    /\ ~panicked
    /\ rpc = "check"
    /\ rpc' = (IF cancelled THEN "closed" ELSE "read")
    /\ UNCHANGED <<lifeVars, cancelled, closeStep, queue, muxVars, rframe>>
    /\ UNCHANGED <<leaked, callVars, envVars, panicked>>
    /\ UNCHANGED <<cfgVars, opVars, sideVars>>
    /\ UNCHANGED updates

\* The connection the receiver reads is open: connect, which dialled it and
\* closes it when it returns, is still running.
RecvConnOpen == conn = "open" /\ pcL \in {"serve", "send", "cleanup"}

\* receive reads the server's reply to a request it has received.
RecvReply ==
    /\ ~panicked
    /\ rpc = "read"
    /\ RecvConnOpen
    /\ \E u \in unanswered :
         /\ rframe' = Frame("reply", u.tag, u.who)
         /\ unanswered' = unanswered \ {u}
    /\ rpc' = "send"
    /\ UNCHANGED <<lifeVars, cancelled, closeStep, queue, muxVars, leaked>>
    /\ UNCHANGED <<callVars, cookieLen, srvBad, panicked>>
    /\ UNCHANGED <<cfgVars, opVars, sideVars>>
    /\ UNCHANGED updates

\* Tags a frame that answers no request may carry.
RogueTags == 0..NCallers

\* receive reads a reply whose tag is that of no request the server holds.
RecvRogue ==
    /\ ~panicked
    /\ rpc = "read"
    /\ RecvConnOpen
    /\ \E t \in RogueTags \ {u.tag : u \in unanswered} :
         rframe' = Frame("reply", t, -1)
    /\ srvBad' = TRUE
    /\ rpc' = "send"
    /\ UNCHANGED <<lifeVars, cancelled, closeStep, queue, muxVars, leaked>>
    /\ UNCHANGED <<callVars, cookieLen, unanswered, panicked>>
    /\ UNCHANGED <<cfgVars, opVars, sideVars>>
    /\ UNCHANGED updates

\* receive's read fails: the connection was closed, here or by the peer.
RecvReadErr ==
    /\ ~panicked
    /\ rpc = "read"
    /\ rframe' = Frame("readErr", -1, -1)
    /\ rpc' = "send"
    /\ UNCHANGED <<lifeVars, cancelled, closeStep, queue, muxVars, leaked>>
    /\ UNCHANGED <<callVars, envVars, panicked>>
    /\ UNCHANGED <<cfgVars, opVars, sideVars>>
    /\ UNCHANGED updates

\* Error codes an ERROR frame may carry.
ErrorCodes == {1, 5}

\* receive reads an ERROR frame answering a request, with some error code.
RecvError ==
    /\ ~panicked
    /\ rpc = "read"
    /\ RecvConnOpen
    /\ \E u \in unanswered, code \in ErrorCodes :
         /\ rframe' = Frame("error", u.tag, code)
         /\ unanswered' = unanswered \ {u}
    /\ rpc' = "send"
    /\ UNCHANGED <<lifeVars, cancelled, closeStep, queue, muxVars, leaked>>
    /\ UNCHANGED <<callVars, cookieLen, srvBad, panicked>>
    /\ UNCHANGED <<updates, cfgVars, opVars, sideVars>>

\* receive reads a frame that answers a request with a command that is
\* neither REPLY nor ERROR.
RecvOther ==
    /\ ~panicked
    /\ rpc = "read"
    /\ RecvConnOpen
    /\ \E u \in unanswered :
         /\ rframe' = Frame("other", u.tag, -1)
         /\ unanswered' = unanswered \ {u}
    /\ rpc' = "send"
    /\ UNCHANGED <<lifeVars, cancelled, closeStep, queue, muxVars, leaked>>
    /\ UNCHANGED <<callVars, cookieLen, srvBad, panicked>>
    /\ UNCHANGED <<updates, cfgVars, opVars, sideVars>>

\* receive reads a SUBSCRIBE_EVENT frame, which carries the reserved tag.
RecvEvent ==
    /\ ~panicked
    /\ rpc = "read"
    /\ RecvConnOpen
    /\ rframe' = Frame("event", TagReserved, -1)
    /\ rpc' = "send"
    /\ UNCHANGED <<lifeVars, cancelled, closeStep, queue, muxVars, leaked>>
    /\ UNCHANGED <<callVars, envVars, panicked>>
    /\ UNCHANGED <<updates, cfgVars, opVars, sideVars>>

\* Body lengths a frame header may declare, around the limit.
FrameSizes ==
    {frameSizeMaxAllow - 1, frameSizeMaxAllow, frameSizeMaxAllow + 1}

\* if n > frameSizeMaxAllow
Oversize(n) == n > frameSizeMaxAllow

\* A frame together with the body length its header declared.
SizedFrame(k, t, b, n) == [kind |-> k, tag |-> t, body |-> b, size |-> n]

\* receive reads the header of the reply to a request, declaring body length
\* n: it refuses the frame (line 240) or reads the body and hands it on.
RecvSized ==
    /\ ~panicked
    /\ rpc = "read"
    /\ RecvConnOpen
    /\ \E u \in unanswered, n \in FrameSizes :
         /\ rframe' = (IF Oversize(n) THEN SizedFrame("oversize", -1, -1, n)
                       ELSE SizedFrame("reply", u.tag, u.who, n))
         /\ unanswered' = unanswered \ {u}
    /\ rpc' = "send"
    /\ UNCHANGED <<lifeVars, cancelled, closeStep, queue, muxVars, leaked>>
    /\ UNCHANGED <<callVars, cookieLen, srvBad, panicked>>
    /\ UNCHANGED <<updates, cfgVars, opVars, sideVars>>

\* receive, line 245, after the refused header was handed on: the body is
\* drained (or the read fails); the receiver returns and closes recv.
RecvDrained ==
    /\ ~panicked
    /\ rpc = "drain"
    /\ rpc' = "closed"
    /\ UNCHANGED <<lifeVars, cancelled, closeStep, queue, muxVars, leaked>>
    /\ UNCHANGED <<rframe, callVars, envVars, panicked>>
    /\ UNCHANGED <<updates, cfgVars, opVars, sideVars>>

\* A consumer of the channel Updates returned receives an event.
UpdatesRead ==
    /\ ~panicked
    /\ updates > 0
    /\ updates' = updates - 1
    /\ UNCHANGED <<lifeVars, cancelled, closeStep, queue, muxVars, recvVars>>
    /\ UNCHANGED <<callVars, envVars, panicked, cfgVars, opVars, sideVars>>

\* ------------------------------------------------------------- the callers

\* sendRequest's select on a channel that is closed or holds len requests,
\* with the caller's context done or not: the cases that can be taken; a
\* send on a closed channel is ready (and panics), default is taken only
\* when no other case is ready.
sendRequestNoDefault(closed, len, done) ==
    (IF closed \/ len < requestsCap THEN {"send"} ELSE {})
        \cup (IF done THEN {"done"} ELSE {})
sendRequest(closed, len, done) ==
    LET ready == (IF closed \/ len < requestsCap THEN {"send"} ELSE {})
                     \cup (IF done THEN {"done"} ELSE {})
    IN  IF ready = {} THEN {"default"} ELSE ready

\* request up to and including sendRequest, for user caller c, whose context
\* has a deadline (Opts.RequestTimeout, or the caller's own) or has none, and
\* when it has one is already done or not.
Submit(c) ==
    /\ ~panicked
    /\ cst[c] = "idle"
    /\ UNCHANGED <<lifeVars, cancelled, closeStep, muxVars, recvVars, envVars>>
    /\ UNCHANGED slotWrites
    /\ \E dl \in BOOLEAN, done \in BOOLEAN :
       \E choice \in sendRequest(requestsClosed, Len(queue), done) :
         /\ done => dl
         /\ IF choice = "send" /\ requestsClosed
            THEN \* send on a closed channel
                 /\ panicked' = TRUE
                 /\ UNCHANGED <<queue, cst, res, deadline>>
            ELSE IF choice = "send"
            THEN /\ queue' = Append(queue, c)
                 /\ cst' = [cst EXCEPT ![c] = "waiting"]
                 /\ deadline' = [deadline EXCEPT ![c] = dl]
                 /\ UNCHANGED <<res, panicked>>
            ELSE /\ cst' = [cst EXCEPT ![c] = "done"]
                 /\ res' = [res EXCEPT ![c] =
                              IF choice = "done" THEN CtxErr
                              ELSE ErrCouldNotSendRequest]
                 /\ UNCHANGED <<queue, deadline, panicked>>
    /\ UNCHANGED <<cfgVars, opVars, sideVars>>
    /\ UNCHANGED updates

\* request's select: <-ctx.Done() (per-request timeout or cancellation).
CallerCtxDone(c) ==
    /\ ~panicked
    /\ cst[c] = "waiting"
    /\ deadline[c]
    /\ cst' = [cst EXCEPT ![c] = "done"]
    /\ res' = [res EXCEPT ![c] = CtxErr]
    /\ deadline' = [deadline EXCEPT ![c] = FALSE]
    /\ UNCHANGED <<lifeVars, cancelled, closeStep, queue, muxVars, recvVars>>
    /\ UNCHANGED <<envVars, slotWrites, panicked>>
    /\ UNCHANGED <<cfgVars, opVars, sideVars>>
    /\ UNCHANGED updates

\* ------------------------------------------------------------------- Close

\* Close(): close(c.requests); close(c.updates); c.cancel(), one at a time.
Close ==
    /\ ~panicked
    /\ pcL # "idle"
    /\ closeStep < 3
    /\ closeStep' = closeStep + 1
    /\ cancelled' = (cancelled \/ closeStep = 2)
    /\ UNCHANGED <<lifeVars, queue, muxVars, recvVars, callVars, envVars>>
    /\ UNCHANGED panicked
    /\ UNCHANGED <<cfgVars, opVars, sideVars>>
    /\ UNCHANGED updates

\* The context given to Connect is cancelled by its owner.
CtxCancel ==
    /\ ~panicked
    /\ pcL # "idle"
    /\ ~cancelled
    /\ cancelled' = TRUE
    /\ UNCHANGED <<lifeVars, closeStep, queue, muxVars, recvVars, callVars>>
    /\ UNCHANGED <<envVars, panicked>>
    /\ UNCHANGED <<cfgVars, opVars, sideVars>>
    /\ UNCHANGED updates

\* ------------------------------------------------------------------ claims

Range(q) == {q[i] : i \in DOMAIN q}

\* The lifecycle goroutine is inside connect's call of handleFrames or in the
\* deferred cleanup that follows it.
Serving == pcL \in {"serve", "send", "cleanup"}

\* Under Spec no state has connect past init: init's requests wait in
\* c.requests for handleFrames, which connect calls only after init returned.
NeverServes == pcL \notin {"startReceive", "serve", "send", "cleanup"}

\* C1: with the dial succeeded, a cookie of 256 bytes and a server that
\* answers AUTH and SET_CLIENT_NAME, the iteration gets through init: connect
\* never returns the error of the init deadline.
C1_InitReachesServing ==
    (cookieLen = cookieLength /\ conn # "none") => connErr # "initDeadline"

\* Every user has issued its request and keeps waiting, the server answered
\* each request it received with a REPLY of the same tag, and the
\* multiplexer has processed every one of these replies.
AllRepliesProcessed ==
    /\ ~srvBad
    /\ pcL = "serve"
    /\ \A c \in Users :
         cst[c] # "idle" /\ c \notin Range(queue) /\ res[c].kind \in {"none", "reply"}
    /\ unanswered = {}
    /\ rframe.kind = "none"

\* C2: against a server that answers every request with a REPLY of the
\* matching tag, in any order, a caller that receives a reply receives the
\* body of the reply to its own request, and once all replies are processed
\* every caller has its own and the pending table is empty.
C2_RepliesPairedByTag ==
    /\ ~srvBad => \A c \in Users : res[c].kind = "reply" => res[c].body = c
    /\ AllRepliesProcessed =>
         /\ pending = EmptyPending
         /\ \A c \in Users : cst[c] = "done" /\ res[c] = Res("reply", c)

\* Two requests were outstanding together, the later one (tag 1) has been
\* answered first and its caller has its own body, the earlier one (tag 0)
\* is still pending.
C2_Witness ==
    /\ ~srvBad
    /\ pcL = "serve"
    /\ tag = 1
    /\ DOMAIN pending = {0}
    /\ pending[0] \in Users
    /\ cst[pending[0]] = "waiting"
    /\ \E c \in Users : c # pending[0] /\ res[c] = Res("reply", c)

\* C3: the tag written into an outgoing request is the key of no entry that
\* is in the pending table at that moment, and the reserved tag is neither
\* allocated nor ever a key of the table.
C3_TagsUnique ==
    [][ /\ (pcL = "serve" /\ Len(queue') < Len(queue)) =>
             (tag' \notin DOMAIN pending /\ tag' # TagReserved)
        /\ TagReserved \notin DOMAIN pending' ]_vars

\* The cursor stood at the last tag below the reserved value, found it
\* taken, stepped over the reserved value and allocated tag 0.
C3_Witness ==
    /\ tag = 0
    /\ DOMAIN pending = {0, TagReserved - 1}
    /\ pending[0] # pending[TagReserved - 1]

\* The deferred cleanup loop has visited every entry of the pending table.
CleanupOver == pcL = "cleanup" /\ toClean = {}

LateReply ==
    /\ pcL = "send"
    /\ send.then = "serve"
    /\ send.val.kind = "reply"
    /\ cst[send.to] = "done"
    /\ res[send.to] = CtxErr

\* C5: when the reply for a request arrives after its caller's wait ended by
\* the context, the multiplexer is not held up by it: it can go on.
C5_LateReplyDiscarded == LateReply => ENABLED Deliver

\* A step of connect's teardown: the cleanup loop reaches its next entry, a
\* send of the loop (or of the failed write) completes, or connect returns.
TeardownStep == CleanupPick \/ Deliver \/ ConnectReturn

\* C6: after a REPLY whose tag is no key of the pending table, handleFrames
\* has returned, and as long as a waiter in the table has not been sent
\* ErrClientClosed the teardown can take its next step (up to closing the
\* connection).
C6_UnknownTagTearsDown ==
    (~panicked /\ cause = "unknownTag"
               /\ \E t \in toClean : Receptive(pending[t]))
        => ENABLED TeardownStep

\* C7: once Close has returned and the lifecycle goroutine has exited, no
\* caller is left blocked in request without a context that ends its wait.
C7_CloseReleasesCallers ==
    (closeStep = 3 /\ pcL = "exited") =>
        \A c \in Users : cst[c] = "waiting" => deadline[c]

\* C8: once Close has returned and the lifecycle goroutine has exited, no
\* receiver is left blocked in its send on recv, which nothing receives
\* from any more (its wg.Done() would never run).
C8_WaitGroupReturns ==
    (closeStep = 3 /\ pcL = "exited" /\ ~panicked) => rpc # "send"

\* A step the client takes on its own while serving, with no new frame from
\* the server and no socket error.
ServingStep ==
    HandleOut \/ HandleOutClosed \/ HandleIn \/ HandleInClosed \/ RecvCheck

\* C9: when the context given to Connect is cancelled while a connection is
\* served (Close not called), the client acts on it without waiting for a
\* further inbound frame or a socket error.
C9_CancelStopsServing ==
    (~panicked /\ cancelled /\ closeStep = 0 /\ pcL = "serve")
        => ENABLED ServingStep

\* C10: when the lifecycle is not cancelled and an iteration has ended
\* (handleFrames has returned, or is returning after a failed write), the
\* teardown can take its next step, whatever the pending table holds.
C10_TeardownCompletes ==
    (~panicked /\ ~cancelled /\ closeStep = 0
               /\ (pcL = "cleanup" \/ (pcL = "send" /\ send.then # "serve")))
        => ENABLED TeardownStep

\* The endpoint the documentation of NewClient promises for Opts o and
\* PULSE_SERVER env.
ClaimedEndpoint(o, env) ==
    LET a == IF o.Addr # NoAddr THEN o.Addr
             ELSE IF env # NoAddr THEN env ELSE defaultAddr
        pr == IF o.Protocol = "" THEN "tcp" ELSE o.Protocol
    IN  IF a.unix THEN [Addr |-> Addr(FALSE, a.rest), Protocol |-> "unix"]
        ELSE [Addr |-> a, Protocol |-> pr]

\* C17: the client NewClient returns holds the address Opts.Addr, else
\* PULSE_SERVER, else the default path; a unix:// prefix is stripped and
\* makes the scheme unix, otherwise the scheme is Opts.Protocol, tcp when
\* not given.
C17_EndpointResolution ==
    pcL # "new" => copts = ClaimedEndpoint(opts, pulseServer)

\* ---------------------------------------------------------- specification

\* ------------------------------------------------- high-level operations

\* The position at which each operation starts: all call ServerInfo first.
FirstPc(op) == <<op, "info">>

\* What ToggleMute, Volume and SetVolume return when a request made at
\* position pc fails (the error is the request's).
FailValue(pc, muted) ==
    IF pc[1] = "Volume" THEN VolumeOf(0)
    ELSE IF pc[1] = "SetVolume" THEN FALSE
    ELSE IF pc[1] = "SetMute" THEN ToggleTarget(muted)
    ELSE TRUE

\* The operation returns (val, err) having issued the requests log, with the
\* server left in state srv.
OpReturn(val, err, log, failed, srv) ==
    hl' = [NoOp EXCEPT
             !.calls = Append(hl.calls,
                 [op |-> hl.op, arg |-> hl.arg, val |-> val, err |-> err,
                  log |-> log, failed |-> failed,
                  before |-> hl.before, after |-> srv])]

\* Everything but the caller of the operations and the server's sinks.
clientVars ==
    <<lifeVars, cancelled, closeStep, queue, muxVars, recvVars, callVars,
      envVars, panicked, updates, cfgVars, sideVars>>

\* The caller calls SetVolume(k / 4), Volume() or ToggleMute().
CallOp ==
    /\ hl.pc[2] = "idle"
    /\ Len(hl.calls) < MaxCalls
    /\ \E op \in {"SetVolume", "Volume", "ToggleMute"}, k \in Volumes :
         /\ op # "SetVolume" => k = 0
         /\ hl' = [hl EXCEPT !.op = op, !.arg = k, !.pc = FirstPc(op),
                             !.before = sinkSrv]
    /\ UNCHANGED <<clientVars, sinkSrv>>

\* ServerInfo: request(commandGetServerInfo), in SetVolume, Volume,
\* ToggleMute, Mute and SetMute; the request is answered or fails.
GetServerInfo ==
    /\ hl.pc[2] = "info"
    /\ \E ok \in BOOLEAN :
         LET log == Append(hl.log, [cmd |-> "GetServerInfo"])
             next == IF hl.pc[1] = "SetVolume" THEN <<"SetVolume", "set">>
                     ELSE IF hl.pc[1] = "Volume" THEN <<"Volume", "sinks">>
                     ELSE IF hl.pc[1] = "ToggleMute" THEN <<"Mute", "info">>
                     ELSE IF hl.pc[1] = "Mute" THEN <<"Mute", "sinks">>
                     ELSE <<"SetMute", "set">>
         IN  IF ok
             THEN hl' = [hl EXCEPT !.log = log, !.pc = next,
                           !.name = ServerInfoReply(sinkSrv).DefaultSink]
             ELSE OpReturn(FailValue(hl.pc, hl.muted), "requestErr", log,
                           TRUE, sinkSrv)
    /\ UNCHANGED <<clientVars, sinkSrv>>

\* Sinks: request(commandGetSinkInfoList), in Volume (which ignores its
\* error and ranges over what it got) and in Mute; then the loop over the
\* sinks.
GetSinkInfoList ==
    /\ hl.pc[2] = "sinks"
    /\ \E ok \in BOOLEAN :
         LET log == Append(hl.log, [cmd |-> "GetSinkInfoList"])
             failed == hl.failed \/ ~ok
             sinks == IF ok THEN SinksReply(sinkSrv) ELSE << >>
             found == FindSink(sinks, hl.name)
         IN  IF hl.pc[1] = "Volume"
             THEN IF found = {}
                  THEN OpReturn(VolumeOf(0), "sinkNotFound", log, failed,
                                sinkSrv)
                  ELSE \E sink \in found :
                         OpReturn(VolumeOf(sink.CVolume[1]), "nil", log,
                                  failed, sinkSrv)
             ELSE IF ~ok
                  THEN OpReturn(TRUE, "requestErr", log, failed, sinkSrv)
                  ELSE IF found = {}
                  THEN OpReturn(TRUE, "sinkNotFound", log, failed, sinkSrv)
                  ELSE \E sink \in found :
                         hl' = [hl EXCEPT !.log = log,
                                          !.muted = sink.Muted,
                                          !.pc = <<"SetMute", "info">>]
    /\ UNCHANGED <<clientVars, sinkSrv>>

\* Outcomes of a request that changes the server: answered, failed before
\* the server saw it, or executed with the reply lost to the caller.
SetOutcomes == {"ok", "fail", "lost"}

\* setSinkVolume: request(commandSetSinkVolume, uint32Tag,
\* uint32(0xffffffff), stringTag, []byte(sinkName), byte(0), cvolume), from
\* SetVolume with CVolume{uint32(volume * 0xffff)}.
SetSinkVolume ==
    /\ hl.pc = <<"SetVolume", "set">>
    /\ \E out \in SetOutcomes :
         LET req == [cmd |-> "SetSinkVolume", index |-> PaInvalidIndex,
                     name |-> hl.name, cvolume |-> <<Uint32Of(hl.arg)>>]
             srv == IF out = "fail" THEN sinkSrv
                    ELSE SrvSetSinkVolume(sinkSrv, req)
         IN  /\ sinkSrv' = srv
             /\ OpReturn(FALSE, IF out = "ok" THEN "nil" ELSE "requestErr",
                         Append(hl.log, req), out # "ok", srv)
    /\ UNCHANGED clientVars

\* SetSinkMute: request(commandSetSinkMute, uint32Tag, uint32(0xffffffff),
\* stringTag, []byte(sinkName), byte(0), uint8(muteCmd)), from SetMute called
\* by ToggleMute with !muted, which ToggleMute returns.
SetSinkMute ==
    /\ hl.pc = <<"SetMute", "set">>
    /\ \E out \in SetOutcomes :
         LET req == [cmd |-> "SetSinkMute", index |-> PaInvalidIndex,
                     name |-> hl.name,
                     mute |-> MuteCmd(ToggleTarget(hl.muted))]
             srv == IF out = "fail" THEN sinkSrv
                    ELSE SrvSetSinkMute(sinkSrv, req)
         IN  /\ sinkSrv' = srv
             /\ OpReturn(ToggleTarget(hl.muted),
                         IF out = "ok" THEN "nil" ELSE "requestErr",
                         Append(hl.log, req), out # "ok", srv)
    /\ UNCHANGED clientVars

\* One caller of the high-level operations on a served connection.
OpsNext ==
    \/ CallOp
    \/ GetServerInfo
    \/ GetSinkInfoList
    \/ SetSinkVolume
    \/ SetSinkMute

OpsSpec == OpsInit /\ [][OpsNext]_vars

\* The steps of connect up to the end of init, of the retry wait, of the
\* callers and of Close.
LifeNext ==
    \/ DialOk
    \/ DialFail
    \/ InitSend
    \/ InitWait
    \/ TimerFires
    \/ RetryTimer
    \/ RetryCtxDone
    \/ \E c \in Users : Submit(c)
    \/ \E c \in Users : CallerCtxDone(c)
    \/ Close
    \/ CtxCancel

\* The client from NewClient on. No state it reaches enables a step of
\* connect past init (NeverServes is an invariant of WholeSpec below), so
\* Next leaves those steps out.
Next ==
    \/ Connect
    \/ LifeNext

Spec == Init /\ [][Next]_vars

\* The steps of a connect call whose init is over (client.go line 197
\* onwards), together with all that runs beside them.
ServeNext ==
    \/ LifeNext
    \/ StartReceive
    \/ HandleOut
    \/ HandleOutClosed
    \/ HandleIn
    \/ HandleInClosed
    \/ Deliver
    \/ CleanupPick
    \/ ConnectReturn
    \/ RecvCheck
    \/ RecvReply
    \/ RecvRogue
    \/ RecvReadErr

\* A connect call observed from the end of a successful init.
ServeSpec == ServeInit /\ [][ServeNext]_vars

\* C27: from connect returning, with or without an error, to the next dial
\* the whole retry interval passes: the timer is armed with nothing in its
\* channel when connect returns, and the dial follows only a tick of that
\* arming; when the context is done while the timer still runs, the
\* lifecycle dials no more, and the one step left to it is to exit.
C27_RetryInterval ==
    /\ [][(pcL # "retry" /\ pcL' = "retry") =>
            (timer'.running /\ timer'.C = 0)]_vars
    /\ [][(pcL = "retry" /\ pcL' # "retry" /\ pcL' # "exited") =>
            (pcL' = "dial" /\ ~timer.running /\ timer.C = 1)]_vars
    /\ [][(pcL = "retry" /\ timer.running /\ cancelled) =>
            (pcL' \in {"retry", "exited"} /\ timer'.C = 0)]_vars
    /\ []((pcL = "retry" /\ cancelled /\ ~panicked) => ENABLED RetryCtxDone)

\* C27 witness: connect has returned, the retry timer runs, and the context
\* is done before its tick.
C27_Witness ==
    /\ pcL = "retry"
    /\ timer.running
    /\ timer.C = 0
    /\ cancelled
    /\ conn = "closed"

\* C28: with Close() before or beside the callers of request, no caller
\* sends on the closed c.requests (no step faults in sendRequest), and a
\* request submitted once the channel is closed returns an error.
C28_NoSendOnClosed ==
    /\ [][(requestsClosed /\ ~panicked /\ panicked') =>
            ~UNCHANGED <<cst, queue, rpc, rframe>>]_vars
    /\ [][\A c \in Users :
            (requestsClosed /\ cst[c] = "idle" /\ cst'[c] # "idle") =>
                (cst'[c] = "done"
                    /\ res'[c] \in {CtxErr, ErrCouldNotSendRequest})]_vars

\* C29: every request handleFrames writes to the connection still has its
\* caller waiting on the response slot at the moment of the write: a request
\* whose caller returned while it was queued is not written.
C29_WrittenHasWaiter ==
    [][(pcL = "serve" /\ Len(queue') < Len(queue) /\ pending' # pending) =>
        cst[Head(queue)] = "waiting"]_vars

\* Every step of the client, from NewClient on.
WholeNext == Connect \/ ServeNext

WholeSpec == Init /\ [][WholeNext]_vars

\* One served connection, from line 197 to the return of connect, with
\* every kind of frame the server may send, callers that submit and give
\* up, and a consumer of the update channel; Close and the cancellation of
\* the lifecycle are left to ServeSpec.
FrameNext ==
    \/ \E c \in Users : Submit(c)
    \/ \E c \in Users : CallerCtxDone(c)
    \/ StartReceive
    \/ HandleOut
    \/ HandleIn
    \/ Deliver
    \/ CleanupPick
    \/ ConnectReturn
    \/ RecvCheck
    \/ RecvReply
    \/ RecvRogue
    \/ RecvReadErr
    \/ RecvError
    \/ RecvOther
    \/ RecvEvent
    \/ RecvSized
    \/ RecvDrained
    \/ UpdatesRead

FrameSpec == ServeInit /\ [][FrameNext]_vars

\* One served connection on which the server sends subscription events
\* while Close() runs beside the multiplexer, the callers and the consumer
\* of the update channel.
ShutNext ==
    \/ Close
    \/ \E c \in Users : Submit(c)
    \/ StartReceive
    \/ HandleOut
    \/ HandleOutClosed
    \/ HandleIn
    \/ Deliver
    \/ RecvCheck
    \/ RecvReply
    \/ RecvEvent
    \/ UpdatesRead

ShutSpec == ServeInit /\ [][ShutNext]_vars

\* C30: once Close() has closed c.updates, handleFrames does not attempt to
\* send a subscription event on it, not even for a SUBSCRIBE_EVENT frame it
\* handles before it sees that c.requests is closed.
C30_NoEventAfterClose ==
    [][(updatesClosed /\ pcL = "serve" /\ rpc = "send"
          /\ rframe.kind = "event" /\ rframe.tag = TagReserved)
        => (rframe' = rframe \/ (~panicked' /\ updates' = updates))]_vars

\* The multiplexer has been handed a SUBSCRIBE_EVENT frame with the reserved
\* tag while the update channel is open.
EventOffered ==
    /\ ~panicked
    /\ pcL = "serve"
    /\ rpc = "send"
    /\ rframe.kind = "event"
    /\ rframe.tag = TagReserved
    /\ ~updatesClosed

\* C11: while the update channel is open, every SUBSCRIBE_EVENT frame with
\* the reserved tag is processed without blocking, leaves exactly one event in
\* the channel whatever it held before (so a burst with no reader leaves one),
\* leaves the pending table alone and keeps the multiplexer serving; the
\* channel never holds more than one event, a read empties it, and only an
\* event frame fills it again.
C11_EventsCoalesce ==
    /\ [](updates <= 1)
    /\ [](EventOffered => ENABLED HandleIn)
    /\ [][/\ (EventOffered /\ rframe' = NoFrame)
               => (updates' = 1 /\ pending' = pending /\ pcL' = "serve")
          /\ (updates' < updates) => (updates' = 0)
          /\ (updates' > updates) => EventOffered]_vars

\* C11 witness: an event frame of a burst is offered while the channel still
\* holds the unread event of an earlier frame and requests are pending.
C11_Witness ==
    /\ EventOffered
    /\ updates = 1
    /\ pending # EmptyPending

\* The receiver has read a header declaring a body length and hands on what
\* it made of it.
SizedOffered == rframe # NoFrame /\ "size" \in DOMAIN rframe

\* C12: a frame whose header declares more than 16 MiB is handed on as an
\* error and any other as its body; after the error handleFrames has
\* returned, and as long as a waiter in the pending table has not been sent
\* ErrClientClosed the teardown can take its next step (up to closing the
\* connection).
C12_OversizeTearsDown ==
    /\ SizedOffered =>
          /\ rframe.kind = "oversize" <=> rframe.size > frameSizeMaxAllow
          /\ rframe.kind = "reply" <=> rframe.size <= frameSizeMaxAllow
    /\ (~panicked /\ cause = "oversize"
                  /\ \E t \in toClean : Receptive(pending[t]))
           => ENABLED TeardownStep

\* Caller c goes through sendRequest in this step.
Submits(c) == cst[c] = "idle" /\ cst'[c] # "idle"

\* The open submission channel holds as many requests as it has room for.
QueueFull == ~requestsClosed /\ Len(queue) >= requestsCap
\* The open submission channel has room.
QueueRoom == ~requestsClosed /\ Len(queue) < requestsCap

\* C13 as claimed: a submission that finds the queue full returns
\* ErrCouldNotSendRequest and leaves the queue and the pending table alone.
C13_FullQueueRefuses ==
    [][\A c \in Users :
         (QueueFull /\ Submits(c)) =>
            /\ res'[c] = ErrCouldNotSendRequest
            /\ queue' = queue
            /\ pending' = pending]_vars

\* C13 amended: on the open submission channel a submission never blocks;
\* when it finds the queue full the caller returns ErrCouldNotSendRequest, or
\* its context's error when its context is already done, and the queue and
\* the pending table are left alone (the first is what a caller whose
\* context is not done gets); when it finds room the request is enqueued
\* unless the context's error is returned, and ErrCouldNotSendRequest is
\* never returned.
C13_SubmissionNeverBlocks ==
    /\ [](\A c \in Users :
            (~panicked /\ cst[c] = "idle" /\ QueueFull) =>
                ENABLED (Submit(c) /\ res'[c] = ErrCouldNotSendRequest))
    /\ [](\A c \in Users :
            (~panicked /\ cst[c] = "idle" /\ QueueRoom) =>
                ENABLED (Submit(c) /\ queue' = Append(queue, c)))
    /\ [][\A c \in Users :
            /\ (QueueFull /\ Submits(c)) =>
                  /\ cst'[c] = "done"
                  /\ res'[c] \in {ErrCouldNotSendRequest, CtxErr}
                  /\ queue' = queue
                  /\ pending' = pending
            /\ (QueueRoom /\ Submits(c)) =>
                  \/ /\ cst'[c] = "waiting"
                     /\ queue' = Append(queue, c)
                     /\ pending' = pending
                  \/ /\ cst'[c] = "done"
                     /\ res'[c] = CtxErr
                     /\ queue' = queue]_vars

\* C13 witness: a caller was refused with ErrCouldNotSendRequest while the
\* full queue still holds the requests that filled it.
C13_Witness ==
    /\ QueueFull
    /\ \E c \in Users : res[c] = ErrCouldNotSendRequest

\* The multiplexer has been handed an ERROR frame whose tag is pending.
ErrorOffered ==
    /\ ~panicked
    /\ pcL = "serve"
    /\ rpc = "send"
    /\ rframe.kind = "error"
    /\ rframe.tag \in DOMAIN pending

\* The multiplexer is sending a typed Error to a response slot.
ErrorSending == ~panicked /\ pcL = "send" /\ send.val.kind = "Error"

\* C14: an ERROR frame for a pending tag t is turned into an Error carrying
\* the command of the request recorded under t and the code of the frame,
\* addressed to that request's slot, while the entry t is removed and every
\* other entry kept; when the send completes the waiter of t and no other
\* caller has received it, and the multiplexer is serving again.
C14_ErrorToWaiter ==
    /\ [][(ErrorOffered /\ rframe' = NoFrame) =>
            /\ send' = [to |-> pending[rframe.tag],
                        val |-> [kind |-> "Error",
                                 cmd |-> RequestCommand(pending[rframe.tag]),
                                 body |-> rframe.body],
                        then |-> "serve"]
            /\ DOMAIN pending' = DOMAIN pending \ {rframe.tag}
            /\ \A x \in DOMAIN pending' : pending'[x] = pending[x]
            /\ res' = res]_vars
    /\ [][(ErrorSending /\ pcL' # "send") =>
            /\ pcL' = "serve"
            /\ conn' = "open"
            /\ pending' = pending
            /\ \A c \in DOMAIN res :
                 res'[c] = IF c = send.to THEN send.val ELSE res[c]]_vars

\* C14 witness: a caller has received the Error for its own command while
\* another request is still pending and the connection is served.
C14_Witness ==
    /\ pcL = "serve"
    /\ conn = "open"
    /\ pending # EmptyPending
    /\ \E c \in Users, code \in ErrorCodes :
         res[c] = [kind |-> "Error", cmd |-> RequestCommand(c), body |-> code]

\* The multiplexer has been handed a frame whose tag is pending and whose
\* command is neither REPLY nor ERROR.
OtherOffered ==
    /\ ~panicked
    /\ pcL = "serve"
    /\ rpc = "send"
    /\ rframe.kind = "other"
    /\ rframe.tag \in DOMAIN pending

\* The multiplexer is sending the protocol-violation error to a response
\* slot.
OtherSending ==
    ~panicked /\ pcL = "send" /\ send.val.kind = "unexpectedCommand"

\* C23: a frame for a pending tag t whose command is neither REPLY nor ERROR
\* is turned into the protocol-violation error, addressed to the slot of the
\* request recorded under t, while the entry t is removed, every other entry
\* kept and handleFrames does not return; when the send completes the waiter
\* of t and no other caller has received the error, and the multiplexer is
\* serving again on the open connection.
C23_OtherCommandToWaiter ==
    /\ [][(OtherOffered /\ rframe' = NoFrame) =>
            /\ send' = [to |-> pending[rframe.tag],
                        val |-> [kind |-> "unexpectedCommand", body |-> -1],
                        then |-> "serve"]
            /\ DOMAIN pending' = DOMAIN pending \ {rframe.tag}
            /\ \A x \in DOMAIN pending' : pending'[x] = pending[x]
            /\ res' = res
            /\ cause' = "none"
            /\ conn' = "open"]_vars
    /\ [][(OtherSending /\ pcL' # "send") =>
            /\ pcL' = "serve"
            /\ conn' = "open"
            /\ cause' = "none"
            /\ pending' = pending
            /\ \A c \in DOMAIN res :
                 res'[c] = IF c = send.to THEN send.val ELSE res[c]]_vars

\* C23 witness: a caller has received the protocol-violation error while
\* another request is still pending and the connection is served.
C23_Witness ==
    /\ pcL = "serve"
    /\ conn = "open"
    /\ cause = "none"
    /\ pending # EmptyPending
    /\ \E c \in Users : res[c] = [kind |-> "unexpectedCommand", body |-> -1]

\* C24: every frame the multiplexer writes carries in its first four bytes
\* its length minus 20, at offsets 20-24 the u32 type tag and the command of
\* the request as submitted, and at offset 26 the allocated tag, which was free and is the
\* key under which exactly this request is then recorded, the other entries
\* being kept; when the write fails nothing is recorded.
C24_FramePatched ==
    [][(pcL = "serve" /\ Len(queue') < Len(queue)) =>
         LET p == Head(queue)
             new == unanswered' \ unanswered
         IN  IF pcL' = "serve"
             THEN /\ Cardinality(new) = 1
                  /\ \A u \in new :
                       /\ u.length = u.size - 20
                       /\ u.size = 30 + p
                       /\ u.cmdTag = 76
                       /\ u.cmd = 20 + p
                       /\ u.tag = tag'
                  /\ tag' \notin DOMAIN pending
                  /\ DOMAIN pending' = DOMAIN pending \cup {tag'}
                  /\ pending'[tag'] = p
                  /\ \A x \in DOMAIN pending : pending'[x] = pending[x]
             ELSE /\ pending' = pending
                  /\ unanswered' = unanswered
                  /\ send'.to = p
                  /\ send'.val.kind = "writeErr"]_vars

\* C24 witness: the frames of two requests of different lengths have been
\* written with tags 0 and 1 and both requests are recorded under them.
C24_Witness ==
    /\ DOMAIN pending = {0, 1}
    /\ \E u, v \in unanswered :
         /\ u.tag = 0 /\ v.tag = 1
         /\ u.size > v.size
         /\ u.length = u.size - 20
         /\ pending[0] = u.cmd - 20
         /\ pending[1] = v.cmd - 20

\* One served connection as in FrameSpec, with the Go scheduler running
\* every goroutine that can take a step: the lifecycle goroutine (connect,
\* handleFrames, the deferred cleanup) and the receiver, whose read fails
\* once the connection is closed.
FrameFairSpec ==
    /\ FrameSpec
    /\ WF_vars(HandleOut \/ HandleIn \/ Deliver \/ CleanupPick
                 \/ ConnectReturn \/ StartReceive)
    /\ WF_vars(RecvCheck \/ RecvDrained \/ (RecvReadErr /\ conn = "closed"))

\* C25: once connect has returned from a connection it served, whatever
\* made handleFrames return, the receiver goroutine of that connection
\* eventually returns, closing recv.
C25_ReceiverExits == (pcL = "retry") ~> (rpc = "closed")

\* auth is about to run with a cookie file that is not 256 bytes long.
BadCookieAuth ==
    /\ ~panicked
    /\ pcL = "initSend"
    /\ initCmd = "auth"
    /\ cookieLen # cookieLength

\* C15: when the cookie file is not exactly 256 bytes long, auth fails the
\* iteration with the cookie error and leaves the submission queue and every
\* caller alone; the lifecycle never enqueues a request of its own, never
\* waits for a response and never gets to serving, so nothing is written to
\* the connection.
C15_BadCookieSendsNothing ==
    /\ [][(BadCookieAuth /\ pcL' # pcL) =>
            /\ connErr' = "cookie"
            /\ pcL' = "retry"
            /\ conn' = "closed"
            /\ queue' = queue
            /\ cst' = cst]_vars
    /\ [](cookieLen # cookieLength =>
            /\ InitCaller \notin Range(queue)
            /\ cst[InitCaller] = "idle"
            /\ pcL \notin {"initWait", "startReceive", "serve", "send",
                            "cleanup"}
            /\ unanswered = {}
            /\ pending = EmptyPending)

\* C15 witness: auth failed on a cookie file of 257 bytes while user
\* requests sit in the queue, and the connection of the iteration is closed.
C15_Witness ==
    /\ cookieLen = cookieLength + 1
    /\ connErr = "cookie"
    /\ conn = "closed"
    /\ queue # << >>

\* auth's request has returned a reply, which auth is about to decode.
AuthReplied ==
    /\ ~panicked
    /\ pcL = "initWait"
    /\ initCmd = "auth"
    /\ cst[InitCaller] = "done"
    /\ res[InitCaller].kind = "reply"

\* C16: given an AUTH reply carrying r, the iteration fails with the
\* version-too-low error exactly when the low 16 bits of r are below 32, and
\* otherwise goes on to setName on the same connection; 0x00010000 | 32 is
\* accepted and 0x00010000 | 31 is rejected.
C16_VersionMasked ==
    [][(AuthReplied /\ pcL' # pcL) =>
         LET r == res[InitCaller].body
             low == r - (r \div 65536) * 65536
         IN  /\ (connErr' = "versionTooLow") <=> (low < 32)
             /\ low < 32 => (pcL' = "retry" /\ conn' = "closed")
             /\ low >= 32 =>
                   /\ pcL' = "initSend"
                   /\ initCmd' = "setName"
                   /\ conn' = "open"
                   /\ connErr' = "none"
             /\ r = 65536 + 32 => connErr' = "none"
             /\ r = 65536 + 31 => connErr' = "versionTooLow"]_vars

\* C16 witness: an AUTH reply was rejected as too low and the iteration
\* failed.
C16_Witness ==
    /\ connErr = "versionTooLow"
    /\ pcL = "retry"
    /\ conn = "closed"

\* auth from the arrival of the server's reply, with what runs beside it.
AuthSpec == AuthInit /\ [][LifeNext]_vars

\* The calls of SetVolume that have returned.
SetVolumeCalls == {i \in DOMAIN hl.calls : hl.calls[i].op = "SetVolume"}

\* What a returned call of SetVolume has in common whatever the conversion:
\* the first request is GET_SERVER_INFO, at most one more follows, and one
\* does follow when the call returned no error.
SetVolumeShape(c) ==
    /\ Len(c.log) \in {1, 2}
    /\ c.log[1] = [cmd |-> "GetServerInfo"]
    /\ c.err = "nil" => Len(c.log) = 2
    /\ Len(c.log) = 1 => (c.failed /\ c.after = c.before)

\* C18 as claimed: SetVolume(v) first calls ServerInfo and then issues one
\* SET_SINK_VOLUME request with sink index 0xFFFFFFFF, the default sink's
\* name and a one-channel cvolume of round(v * 0xFFFF).
C18_SetVolumeRounds ==
    \A i \in SetVolumeCalls :
        LET c == hl.calls[i]
        IN  /\ SetVolumeShape(c)
            /\ Len(c.log) = 2 =>
                  c.log[2] = [cmd |-> "SetSinkVolume",
                              index |-> "0xffffffff",
                              name |-> c.before.default,
                              cvolume |-> <<(2 * c.arg * 65535 + 4) \div 8>>]

\* C18 amended: the same, with a one-channel cvolume of floor(v * 0xFFFF)
\* (the volume v is c.arg quarters).
C18_SetVolumeTruncates ==
    \A i \in SetVolumeCalls :
        LET c == hl.calls[i]
        IN  /\ SetVolumeShape(c)
            /\ Len(c.log) = 2 =>
                  c.log[2] = [cmd |-> "SetSinkVolume",
                              index |-> "0xffffffff",
                              name |-> c.before.default,
                              cvolume |-> <<(c.arg * 65535) \div 4>>]

\* C18 witness: SetVolume(0.5) has returned without error, having sent the
\* channel value 0x7FFF to the default sink, which is the second sink.
C18_Witness ==
    \E i \in SetVolumeCalls :
        /\ hl.calls[i].arg = 2
        /\ hl.calls[i].err = "nil"
        /\ hl.calls[i].before.default = "B"
        /\ hl.calls[i].log[2].cvolume = <<32767>>
        /\ hl.calls[i].after.vol["B"] = 32767

\* Call i is a SetVolume that returned no error and call i + 1 is a Volume
\* all of whose requests were answered.
SetThenGet(i) ==
    /\ i \in DOMAIN hl.calls
    /\ i + 1 \in DOMAIN hl.calls
    /\ hl.calls[i].op = "SetVolume"
    /\ hl.calls[i].err = "nil"
    /\ hl.calls[i + 1].op = "Volume"
    /\ ~hl.calls[i + 1].failed

ToggledTwice ==
    /\ Len(hl.calls) >= 2
    /\ \A i \in {1, 2} :
         hl.calls[i].op = "ToggleMute" /\ ~hl.calls[i].failed

\* C20: two consecutive ToggleMute calls by one caller, with every request
\* answered, both return no error and opposite values, each the mute state
\* of the default sink on the server after that call, and the second call
\* leaves the server as it was before the first.
C20_ToggleTwice ==
    ToggledTwice =>
        LET c1 == hl.calls[1]
            c2 == hl.calls[2]
            d == c1.before.default
        IN  /\ c1.err = "nil" /\ c2.err = "nil"
            /\ c1.val # c2.val
            /\ c1.val = c1.after.mute[d]
            /\ c2.val = c2.after.mute[d]
            /\ c1.val # c1.before.mute[d]
            /\ c2.after = c1.before

\* C20 witness: two ToggleMute calls have returned, the first muting the
\* default sink, which is the second sink, the other sink being unmuted.
C20_Witness ==
    /\ ToggledTwice
    /\ hl.calls[1].val = TRUE
    /\ hl.calls[2].val = FALSE
    /\ sinkSrv.default = "B"
    /\ ~sinkSrv.mute["A"]

\* ------------------------------------------------------------ Updates

\* A goroutine calls Updates, which starts request(ctx, commandSubscribe,
\* uint32Tag, uint32(0x02ff)).
CallUpdates ==
    /\ ~panicked
    /\ sub.pc = "idle"
    /\ sub.calls < MaxCalls
    /\ sub' = [sub EXCEPT !.pc = "subscribe", !.calls = @ + 1, !.ok = FALSE,
                          !.held = updates, !.since = FALSE]
    /\ UNCHANGED <<lifeVars, cancelled, closeStep, queue, muxVars, recvVars>>
    /\ UNCHANGED <<callVars, envVars, panicked, updates, cfgVars, opVars>>
    /\ UNCHANGED <<cli, timer>>

\* Updates: the SUBSCRIBE request returns. With an error Updates returns
\* (nil, err); otherwise it returns c.updates, the channel NewClient made.
\* The server holds the subscription once it has executed the request.
Subscribe ==
    /\ ~panicked
    /\ sub.pc = "subscribe"
    /\ \E out \in SetOutcomes :
         sub' = [sub EXCEPT !.pc = "idle", !.ok = (out = "ok"),
                            !.subscribed = (@ \/ out # "fail")]
    /\ UNCHANGED <<lifeVars, cancelled, closeStep, queue, muxVars, recvVars>>
    /\ UNCHANGED <<callVars, envVars, panicked, updates, cfgVars, opVars>>
    /\ UNCHANGED <<cli, timer>>

\* Something changes on the server (a SetVolume of this or another client):
\* holding a subscription of this connection, it sends a SUBSCRIBE_EVENT
\* frame, which the receiver reads.
RecvSubscribed ==
    /\ sub.subscribed
    /\ RecvEvent

\* One served connection with callers of request and of Updates, a server
\* that answers requests and sends events to its subscribers only, and a
\* consumer of the update channel.
SubNext ==
    \/ \E c \in Users : Submit(c)
    \/ StartReceive
    \/ HandleOut
    \/ Deliver
    \/ RecvCheck
    \/ RecvReply
    \/ RecvSubscribed
    \/ HandleIn
    \/ UpdatesRead
    \/ CallUpdates
    \/ Subscribe

SubSpec == ServeInit /\ [][SubNext]_vars

\* The last call of Updates has returned the channel.
UpdatesReturned == sub.pc = "idle" /\ sub.ok

\* C21 as claimed: after Updates has returned the channel, the channel is
\* empty as long as no SUBSCRIBE_EVENT frame has been handed to the
\* multiplexer since the call, and each such frame handed over after the
\* return leaves an event to read.
C21_NoStaleEvent ==
    /\ [](UpdatesReturned /\ ~sub.since => updates = 0)
    /\ [][(UpdatesReturned /\ EventOffered /\ rframe' = NoFrame)
             => updates' >= 1]_vars

\* C21 amended: the same for a call of Updates made while the channel held
\* no event.
C21_NoEventUnlessHeld ==
    /\ [](UpdatesReturned /\ sub.held = 0 /\ ~sub.since => updates = 0)
    /\ [][(UpdatesReturned /\ sub.held = 0 /\ EventOffered
              /\ rframe' = NoFrame) => updates' >= 1]_vars

\* C21 witness: a second call of Updates, made on the emptied channel, has
\* returned, and an event frame handed over since has left an event to read.
C21_Witness ==
    /\ UpdatesReturned
    /\ sub.calls = 2
    /\ sub.held = 0
    /\ sub.since
    /\ updates = 1

\* ----------------------------------------------------------- parseSinks

\* How many sinks the output of pactl lists, and how many channels a sink
\* has at most.
MaxSinks == 2
MaxChannels == 2

\* A line of pactl's output as parseSinks sees it: the number of tabs
\* readToken counted, the token readToken returned (for a line starting
\* with "Sink #" the digits after it are kept apart, in idx), and what is
\* left of the line: its text, and the percentages of the channel entries
\* ("front-left: 45875 /  70% / -9.29 dB") in it.
Line(i, t, n, x, v) ==
    [indent |-> i, token |-> t, idx |-> n, text |-> x, vols |-> v]

\* beginSinkRegex.FindStringSubmatch(token), with `^Sink #(\d+)`: the match
\* and its group, or nothing.
BeginSinkSubmatch(line) ==
    IF line.token = "Sink #" THEN <<line.token, line.idx>> ELSE << >>

\* volumeRegex.FindAllStringSubmatch(reminder, -1): one match per channel
\* entry, each the matched text and its group, the percentage.
VolumeSubmatches(line) ==
    [i \in 1..Len(line.vols) |-> <<"match", line.vols[i]>>]

\* sink = &Sink{}
NewSink == [Index |-> 0, Name |-> "", Muted |-> FALSE, CVolume |-> << >>]

\* if sink != nil { sinks = append(sinks, sink) }; sink is << >> when nil.
AppendSink(sinks, sink) == IF sink # << >> THEN Append(sinks, sink[1]) ELSE sinks

\* if len(parts) < 2 { return sinks, fmt.Errorf("invalid volume line ...") }
VolumeLineOk(parts) == ~(Len(parts) < 2)

\* parseSinks: the loop over the lines scan has still to deliver, with the
\* sinks appended so far and the sink under construction.
RECURSIVE ScanLine(_, _, _)
ScanLine(lines, sinks, sink) ==
    IF lines = << >>
    THEN [sinks |-> AppendSink(sinks, sink), err |-> "nil"]
    ELSE LET line == Head(lines)
             rest == Tail(lines)
         IN  IF line.indent = 0
             THEN LET parts == BeginSinkSubmatch(line)
                  IN  IF Len(parts) # 2
                      THEN ScanLine(rest, sinks, sink)
                      ELSE ScanLine(rest, AppendSink(sinks, sink),
                                    <<[NewSink EXCEPT !.Index = parts[2]]>>)
             ELSE IF line.indent = 1 /\ sink # << >>
             THEN IF line.token = "Volume"
                  THEN LET parts == VolumeSubmatches(line)
                       IN  IF ~VolumeLineOk(parts)
                           THEN [sinks |-> sinks, err |-> "invalid volume line"]
                           ELSE ScanLine(rest, sinks,
                                  <<[sink[1] EXCEPT !.CVolume =
                                       @ \o [i \in 1..Len(parts) |-> parts[i][2]]]>>)
                  ELSE IF line.token = "Mute"
                  THEN ScanLine(rest, sinks,
                                <<[sink[1] EXCEPT !.Muted = (line.text = "yes")]>>)
                  ELSE IF line.token = "Name"
                  THEN ScanLine(rest, sinks,
                                <<[sink[1] EXCEPT !.Name = line.text]>>)
                  ELSE ScanLine(rest, sinks, sink)
             ELSE ScanLine(rest, sinks, sink)

\* func parseSinks(r io.Reader, logger Logger) ([]*Sink, error)
parseSinks(r) == ScanLine(r, << >>, << >>)

\* The percentage of channel i of a sink.
ChannelPct(i) == 70 + 4 * (i % 2)
\* "\tVolume: ..." of a sink with n channels.
VolumeLine(n) == Line(1, "Volume", 0, "", [i \in 1..n |-> ChannelPct(i)])
\* "Sink #N"
SinkLine(n) == Line(0, "Sink #", n, "", << >>)
\* An empty line.
BlankLine == Line(0, "", 0, "", << >>)
\* "\tName: x" and "\tMute: yes"
TextLine(t, x) == Line(1, t, 0, x, << >>)

\* The block of one sink as pactl prints it (after an empty line; with the
\* State and Base Volume lines and a property, which parseSinks skips), or
\* with its three lines only, in another order.
SinkBlocks ==
    {<<BlankLine, SinkLine(n), TextLine("State", "IDLE"), TextLine("Name", x),
       TextLine("Mute", m), VolumeLine(c),
       Line(1, "Base Volume", 0, "", <<100>>),
       Line(2, "Name", 0, "device.description", << >>)>> :
         n \in {0, 3}, x \in {"null", "test"}, m \in {"yes", "no"},
         c \in 1..MaxChannels}
    \cup
    {<<SinkLine(n), VolumeLine(c), TextLine("Mute", m), TextLine("Name", x)>> :
         n \in {0, 3}, x \in {"null", "test"}, m \in {"yes", "no"},
         c \in 1..MaxChannels}

\* The outputs of pactl given to parseSinks: up to MaxSinks blocks.
RECURSIVE PactlOutputs(_)
PactlOutputs(k) ==
    IF k = 0 THEN {<< >>}
    ELSE LET shorter == PactlOutputs(k - 1)
         IN  shorter \cup {o \o b : o \in shorter, b \in SinkBlocks}

\* parseSinks is about to be called on some output of pactl.
CliInit ==
    /\ ClientInit
    /\ hl = NoOp
    /\ sinkSrv = NoSinks
    /\ opts = UnixOpts
    /\ copts = UnixOpts
    /\ pulseServer = NoAddr
    /\ pcL = "idle"
    /\ conn = "none"
    /\ cookieLen = cookieLength
    /\ \E o \in PactlOutputs(MaxSinks) : cli = [NoCli EXCEPT !.r = o]

\* CliClient.Sinks: return parseSinks(bytes.NewBuffer(out), logger)
ParseSinks ==
    /\ ~cli.called
    /\ LET ret == parseSinks(cli.r)
       IN  cli' = [cli EXCEPT !.called = TRUE, !.sinks = ret.sinks,
                              !.err = ret.err]
    /\ UNCHANGED <<lifeVars, cancelled, closeStep, queue, muxVars, recvVars>>
    /\ UNCHANGED <<callVars, envVars, panicked, updates, cfgVars, opVars>>
    /\ UNCHANGED <<sub, timer>>

CliNext == ParseSinks

CliSpec == CliInit /\ [][CliNext]_vars

\* The header lines of r, and the lines of the block a header opens.
SinkHeaders(r) ==
    {i \in DOMAIN r : r[i].indent = 0 /\ r[i].token = "Sink #"}
BlockLines(r, i, t) ==
    {j \in DOMAIN r :
        /\ j > i
        /\ \A h \in SinkHeaders(r) : h > i => j < h
        /\ r[j].indent = 1
        /\ r[j].token = t}

\* Every block has one Name, one Mute and one Volume line, the last with
\* an entry for every channel of the sink (at least one).
WellFormed(r) ==
    \A i \in SinkHeaders(r) :
        /\ \A t \in {"Name", "Mute", "Volume"} :
              Cardinality(BlockLines(r, i, t)) = 1
        /\ \A j \in BlockLines(r, i, "Volume") : Len(r[j].vols) >= 1

\* C22: for a well-formed output parseSinks returns no error and one Sink
\* per "Sink #N" line, in the order of the lines, the last block included,
\* each with Index N, the Name and Muted (true iff "yes") of its block's
\* Name and Mute lines, and the percentages of its Volume line, one per
\* channel, whatever the number of channels.
C22_ParseSinks ==
    (cli.called /\ WellFormed(cli.r)) =>
        LET r == cli.r
            H == SinkHeaders(r)
        IN  /\ cli.err = "nil"
            /\ Len(cli.sinks) = Cardinality(H)
            /\ \A i \in H :
                 LET k == Cardinality({h \in H : h <= i})
                 IN  /\ cli.sinks[k].Index = r[i].idx
                     /\ \A j \in BlockLines(r, i, "Name") :
                          cli.sinks[k].Name = r[j].text
                     /\ \A j \in BlockLines(r, i, "Mute") :
                          cli.sinks[k].Muted = (r[j].text = "yes")
                     /\ \A j \in BlockLines(r, i, "Volume") :
                          cli.sinks[k].CVolume = r[j].vols

\* ------------------------------------------------------ nextAvailableTag

\* The multiplexer loop of a long-lived connection, between two iterations,
\* with the cursor at t and the tags of S taken: by earlier requests of
\* caller p that the server never answered and p gave up waiting for, whose
\* entries nothing removes.
LongServe(t, S, p) ==
    /\ initCmd = "auth"
    /\ cancelled = FALSE
    /\ closeStep = 0
    /\ queue = << >>
    /\ connErr = "none"
    /\ pending = [x \in S |-> p]
    /\ tag = t
    /\ send = NoSend
    /\ toClean = {}
    /\ cause = "none"
    /\ rpc = "check"
    /\ rframe = NoFrame
    /\ leaked = FALSE
    /\ cst = [c \in Callers |-> IF S # {} /\ c = p THEN "done" ELSE "idle"]
    /\ res = [c \in Callers |-> IF S # {} /\ c = p THEN CtxErr ELSE NoRes]
    /\ deadline = [c \in Callers |-> c = InitCaller]
    /\ unanswered = {}
    /\ slotWrites = [c \in Callers |-> 0]
    /\ srvBad = FALSE
    /\ panicked = FALSE
    /\ pcL = "serve"
    /\ conn = "open"
    /\ cookieLen = cookieLength
    /\ updates = 0
    /\ sub = NoSub
    /\ timer = NoTimer
    /\ cli = NoCli
    /\ hl = NoOp
    /\ sinkSrv = NoSinks
    /\ opts = UnixOpts
    /\ copts = UnixOpts
    /\ pulseServer = NoAddr

\* The tags a request can be given.
Tags == 0..(TagReserved - 1)

\* connect at line 197, or handleFrames with its cursor at any tag and any
\* tags but all of them taken.
CursorInit ==
    \/ ServeInit
    \/ \E t \in Tags, S \in SUBSET Tags, p \in Users :
          S # Tags /\ LongServe(t, S, p)

\* The steps that make handleFrames allocate a tag.
CursorNext ==
    \/ \E c \in Users : Submit(c)
    \/ StartReceive
    \/ HandleOut

CursorSpec == CursorInit /\ [][CursorNext]_vars

\* C26: nextAvailableTag(cursor, pending) returns the first tag absent from
\* pending in the cyclic order cursor, cursor + 1, ..., 0xFFFFFFFE, 0, 1,
\* ... (so the cursor itself when it is free), and it returns whenever a tag
\* is free; each connection starts with the cursor at 0, and the cursor is
\* set to the tag allocated, under which the request is recorded when its
\* frame was written.
C26_FirstFreeTag ==
    /\ [][(pcL = "serve" /\ Len(queue') < Len(queue)) =>
            LET free == (0..(TagReserved - 1)) \ DOMAIN pending
                dist(x) == (x - tag + TagReserved) % TagReserved
            IN  /\ tag' \in free
                /\ \A x \in free : dist(tag') <= dist(x)
                /\ tag \in free => tag' = tag
                /\ pcL' = "serve" => DOMAIN pending' \ DOMAIN pending = {tag'}]_vars
    /\ []((~panicked /\ pcL = "serve" /\ queue # << >>
              /\ (0..(TagReserved - 1)) \ DOMAIN pending # {})
            => ENABLED HandleOut)
    /\ [][(pcL = "startReceive" /\ pcL' = "serve") => tag' = 0]_vars

\* C26 witness: with the cursor below the reserved value and every tag from
\* 1 up taken, the scan has stepped over the reserved value and allocated
\* tag 0 to a waiting caller.
C26_Witness ==
    /\ pcL = "serve"
    /\ tag = 0
    /\ DOMAIN pending = 0..(TagReserved - 1)
    /\ cst[pending[0]] = "waiting"
    /\ \A x \in 1..(TagReserved - 1) : cst[pending[x]] = "done"

\* The client from before NewClient on.
ConfigNext == NewClient \/ Next

ConfigSpec == ConfigInit /\ [][ConfigNext]_vars

\* The steps of one served connection that allocate tags, answer them and
\* tear the connection down: callers, multiplexer, receiver and cleanup.
TagNext ==
    \/ \E c \in Users : Submit(c)
    \/ \E c \in Users : CallerCtxDone(c)
    \/ StartReceive
    \/ HandleOut
    \/ HandleIn
    \/ Deliver
    \/ CleanupPick
    \/ ConnectReturn
    \/ RecvCheck
    \/ RecvReply
    \/ RecvReadErr

\* One served connection, observed also when the multiplexer loop has been
\* running long enough for its cursor to have moved.
TagSpec == TagInit /\ [][TagNext]_vars

====
